---------------------------- MODULE Spec2Model ----------------------------
(***************************************************************************)
(* Model of the digital filter library (src/src/filter.c): the cascaded    *)
(* RC and CR sections, the FIR convolution engine and the general IIR      *)
(* engine, each as a state machine over one caller-owned instance handle.  *)
(*                                                                         *)
(* Numbers.  A float32_t is modelled as an exact rational <<n, d>> in      *)
(* lowest terms with d > 0.  The three values arithmetic can produce that  *)
(* are no real numbers are kept as <<1, 0>> (+infinity), <<-1, 0>>         *)
(* (-infinity) and <<0, 0>> (not-a-number), with the IEEE-754 rules for    *)
(* them; rounding and the sign of zero are not modelled.                   *)
(*                                                                         *)
(* Memory.  malloc may fail; memory it returns holds indeterminate values, *)
(* drawn from the sets Indeterminate*.  An access through a null pointer   *)
(* or past the end of an allocated array is undefined behaviour: the       *)
(* model either traps (crashed becomes TRUE and nothing runs afterwards)   *)
(* or, where the code can plausibly continue, continues.                   *)
(***************************************************************************)
EXTENDS Integers, Sequences, FiniteSets, TLC

VARIABLES
    rc,         \* the caller's RC handle and the filter_rc_t it points to
    rc_call,    \* the last RC API call: arguments, instance before, results
    cr,         \* the caller's CR handle and the filter_cr_t it points to
    cr_call,    \* the last CR API call
    fir,        \* the caller's FIR handle and the filter_fir_t it points to
    fir_call,   \* the last FIR API call
    iir,        \* the caller's IIR handle and the filter_iir_t it points to
    iir_call,   \* the last IIR API call
    synth,      \* the last coefficient synthesis call: arguments and results
    bf,         \* the caller's boolean filter handle and its filter_bool_t
    bf_call,    \* the last boolean filter API call
    calls,      \* number of API calls made so far
    crashed     \* TRUE once an undefined memory access has trapped

vars == <<rc, rc_call, cr, cr_call, fir, fir_call, iir, iir_call, synth, bf,
          bf_call, calls, crashed>>

\* what the operations of one filter kind leave alone
OtherThanRc  == <<cr, cr_call, fir, fir_call, iir, iir_call, synth, bf, bf_call>>
OtherThanCr  == <<rc, rc_call, fir, fir_call, iir, iir_call, synth, bf, bf_call>>
OtherThanFir == <<rc, rc_call, cr, cr_call, iir, iir_call, synth, bf, bf_call>>
OtherThanIir == <<rc, rc_call, cr, cr_call, fir, fir_call, synth, bf, bf_call>>
OtherThanSynth ==
    <<rc, rc_call, cr, cr_call, fir, fir_call, iir, iir_call, bf, bf_call, calls,
      crashed>>
OtherThanBool == <<rc, rc_call, cr, cr_call, fir, fir_call, iir, iir_call, synth>>

(***************************************************************************)
(* Bounds of the model.                                                    *)
(***************************************************************************)
MaxCalls == 4
MaxOrder == 2

(***************************************************************************)
(* float32_t arithmetic.                                                   *)
(***************************************************************************)
Abs(n) == IF n < 0 THEN -n ELSE n

Sgn(n) == IF n < 0 THEN -1 ELSE IF n > 0 THEN 1 ELSE 0

RECURSIVE GCD(_, _)
GCD(a, b) == IF b = 0 THEN a ELSE GCD(b, a % b)

Norm(n, d) ==
    IF d = 0 THEN <<Sgn(n), 0>>
    ELSE IF n = 0 THEN <<0, 1>>
    ELSE LET g == GCD(Abs(n), Abs(d))
         IN  <<Sgn(d) * Sgn(n) * (Abs(n) \div g), Abs(d) \div g>>

F(n)  == <<n, 1>>
NAN   == <<0, 0>>
PInf  == <<1, 0>>
NInf  == <<-1, 0>>

IsNaN(a)    == a = NAN
IsFinite(a) == a[2] # 0

Neg(a) == <<-a[1], a[2]>>

Add(a, b) ==
    IF a[2] = 0 /\ b[2] = 0 THEN (IF a[1] = b[1] THEN a ELSE NAN)
    ELSE IF a[2] = 0 THEN a
    ELSE IF b[2] = 0 THEN b
    ELSE LET l == (a[2] \div GCD(a[2], b[2])) * b[2]
         IN  Norm(a[1] * (l \div a[2]) + b[1] * (l \div b[2]), l)

Sub(a, b) == Add(a, Neg(b))

Mul(a, b) == Norm(a[1] * b[1], a[2] * b[2])

Recip(a) == Norm(a[2], a[1])

Div(a, b) == Mul(a, Recip(b))

\* a < b as C evaluates it: false whenever an operand is not-a-number
Lt(a, b) ==
    IF IsNaN(a) \/ IsNaN(b) \/ a = b THEN FALSE
    ELSE IF a = NInf \/ b = PInf THEN TRUE
    ELSE IF a = PInf \/ b = NInf THEN FALSE
    ELSE a[1] * b[2] < b[1] * a[2]

Gt(a, b) == Lt(b, a)

\* a == b as C evaluates it
FEq(a, b) == ~IsNaN(a) /\ a = b

\* a >= b over the reals (the negation of a < b for numbers)
Geq(a, b) == ~IsNaN(a) /\ ~IsNaN(b) /\ ~Lt(a, b)

\* 2*pi as a float32_t constant; the rational 44/7 stands for it
FILTER_TWOPI == <<44, 7>>


(***************************************************************************)
(* Values the callers pass and values fresh memory may hold.               *)
(***************************************************************************)
Samples       == {F(0), F(1), F(3)}
Cutoffs       == {F(-14), F(0), F(7), F(22)}
Rates         == {F(44)}
Indeterminate == {F(0), F(3)}
IndeterminateRate == {F(0), F(44)}
Coeffs        == {F(0), F(1), F(2)}

\* an out-parameter: a null pointer, or a location holding val before the call
OutParams     == {[ok |-> FALSE, val |-> F(0)]}
                 \cup [ok : {TRUE}, val : {F(0), F(3)}]

\* the API's status codes; TRAP marks a call that never returned
eFILTER_OK    == "OK"
eFILTER_ERROR == "ERROR"
TRAP          == "TRAP"

\* a call record: the operation, its arguments, the instance before the call,
\* the returned status and what the call left in its out-parameter
Call(op, status, a, pre, out, flag) ==
    [op |-> op, status |-> status, fc |-> a.fc, fs |-> a.fs, order |-> a.order,
     coeff |-> a.coeff,
     v |-> a.v, in |-> a.in, out0 |-> a.out0, p_ok |-> a.p_ok,
     pre |-> pre, out |-> out, flag |-> flag]

\* p_ok: the call's out-parameter is not a null pointer
NoArgs ==
    [fc |-> F(0), fs |-> F(0), order |-> 0, v |-> F(0), in |-> F(0), out0 |-> F(0),
     p_ok |-> TRUE, coeff |-> <<>>]

(***************************************************************************)
(* RC filter.                                                              *)
(***************************************************************************)
\* filter_rc_t behind the caller's handle.  ptr: the handle is non-null;
\* p_y_ok: the p_y array was allocated; ctor: status of the constructor call
\* that wrote the handle (bookkeeping, not a field of the struct).
RcNull ==
    [ptr |-> FALSE, ctor |-> "none", is_init |-> FALSE, alpha |-> F(0), fc |-> F(0),
     fs |-> F(0), order |-> 0, p_y_ok |-> FALSE, p_y |-> <<>>]

\* contents of a freshly allocated filter_rc_t.  While is_init is false no
\* function reads any other field, so those are left unresolved (zero).
IndeterminateRc ==
    { [is_init |-> FALSE, alpha |-> F(0), fc |-> F(0), fs |-> F(0), order |-> 0] }
    \cup [is_init : {TRUE}, alpha : Indeterminate, fc : Indeterminate,
          fs : IndeterminateRate, order : 0..MaxOrder]

\* mutation: the Nyquist check accepts fc = fs/2
filter_rc_calculate_alpha_leq(fc, fs, alpha) ==
    IF ~Gt(fc, Div(fs, F(2))) /\ ~IsNaN(fc) /\ ~IsNaN(fs)
    THEN [status |-> eFILTER_OK,
          alpha  |-> Div(F(1), Add(F(1), Div(fs, Mul(FILTER_TWOPI, fc))))]
    ELSE [status |-> eFILTER_ERROR, alpha |-> alpha]

\* an alpha without the 1 + in the denominator
filter_rc_calculate_alpha_ratio(fc, fs, alpha) ==
    IF Lt(fc, Div(fs, F(2)))
    THEN [status |-> eFILTER_OK,
          alpha  |-> Div(F(1), Div(fs, Mul(FILTER_TWOPI, fc)))]
    ELSE [status |-> eFILTER_ERROR, alpha |-> alpha]

\* alpha is the value *p_alpha held before the call
filter_rc_calculate_alpha(fc, fs, alpha) ==
    IF Lt(fc, Div(fs, F(2)))
    THEN [status |-> eFILTER_OK,
          alpha  |-> Div(F(1), Add(F(1), Div(fs, Mul(FILTER_TWOPI, fc))))]
    ELSE [status |-> eFILTER_ERROR, alpha |-> alpha]

\* the instance filter_rc_init leaves when both allocations succeeded;
\* g is the fresh struct's content, gy the fresh p_y array's content
rc_init_allocated(fc, fs, order, init_value, g, gy) ==
    LET r == filter_rc_calculate_alpha(fc, fs, g.alpha)
    IN  IF r.status = eFILTER_OK
        THEN [ptr |-> TRUE, ctor |-> eFILTER_OK, is_init |-> TRUE, alpha |-> r.alpha,
              fc |-> fc, fs |-> fs, order |-> order, p_y_ok |-> TRUE,
              p_y |-> [i \in 1..order |-> init_value]]
        ELSE [ptr |-> TRUE, ctor |-> eFILTER_ERROR, is_init |-> g.is_init,
              alpha |-> g.alpha, fc |-> g.fc, fs |-> g.fs, order |-> g.order,
              p_y_ok |-> TRUE, p_y |-> gy]

\* the instance filter_rc_init leaves when only the p_y allocation failed
rc_init_no_array(g) ==
    [ptr |-> TRUE, ctor |-> eFILTER_ERROR, is_init |-> g.is_init, alpha |-> g.alpha,
     fc |-> g.fc, fs |-> g.fs, order |-> g.order, p_y_ok |-> FALSE, p_y |-> <<>>]

\* contents of a fresh array of n floats; unread while is_init is false
IndeterminateArray(n, observable) ==
    IF observable THEN [1..n -> Indeterminate] ELSE {[i \in 1..n |-> F(0)]}

\* the caller constructs into a handle that is still null
filter_rc_init ==
    /\ ~crashed /\ calls < MaxCalls
    /\ UNCHANGED OtherThanRc
    /\ ~rc.ptr
    /\ calls' = calls + 1
    /\ \E fc \in Cutoffs, fs \in Rates, order \in 0..MaxOrder, init_value \in Samples :
        LET a == [NoArgs EXCEPT !.fc = fc, !.fs = fs, !.order = order, !.v = init_value]
        IN
        \E p_inst_ok \in BOOLEAN :
            IF ~(p_inst_ok /\ order > 0)
            THEN /\ rc' = rc
                 /\ rc_call' = Call("rc_init", eFILTER_ERROR, a, rc, F(0), FALSE)
                 /\ crashed' = FALSE
            ELSE \E m_inst \in BOOLEAN :
                IF ~m_inst
                THEN \* (*p_filter_inst)->p_y is written through a null handle
                     \E trap \in BOOLEAN :
                        /\ rc' = RcNull
                        /\ rc_call' = Call("rc_init", IF trap THEN TRAP ELSE eFILTER_ERROR,
                                           a, rc, F(0), FALSE)
                        /\ crashed' = trap
                ELSE \E m_y \in BOOLEAN, g \in IndeterminateRc :
                    IF ~m_y
                    THEN /\ rc' = rc_init_no_array(g)
                         /\ rc_call' = Call("rc_init", eFILTER_ERROR, a, rc, F(0), FALSE)
                         /\ crashed' = FALSE
                    ELSE \E gy \in IndeterminateArray(order, g.is_init) :
                        LET new == rc_init_allocated(fc, fs, order, init_value, g, gy)
                        IN  /\ rc' = new
                            /\ rc_call' = Call("rc_init", new.ctor, a, rc, F(0), FALSE)
                            /\ crashed' = FALSE

\* p_is_init is null in the first case; flag is what *p_is_init holds afterwards
filter_rc_is_init ==
    /\ ~crashed /\ calls < MaxCalls
    /\ UNCHANGED OtherThanRc
    /\ calls' = calls + 1
    /\ UNCHANGED <<rc, crashed>>
    /\ \E p_ok \in BOOLEAN :
        IF rc.ptr /\ p_ok
        THEN rc_call' = Call("rc_is_init", eFILTER_OK, [NoArgs EXCEPT !.p_ok = p_ok],
                             rc, F(0), rc.is_init)
        ELSE rc_call' = Call("rc_is_init", eFILTER_ERROR, [NoArgs EXCEPT !.p_ok = p_ok],
                             rc, F(0), FALSE)

\* every p_y[i] the handler and reset touch lies inside the allocated array
RcHndlMemOk(inst) == inst.p_y_ok /\ inst.order \in 1..Len(inst.p_y)

RcResetMemOk(inst) == inst.order = 0 \/ RcHndlMemOk(inst)

RECURSIVE rc_hndl_loop_stale(_, _, _, _, _, _)
rc_hndl_loop_stale(y0, y, alpha, order, in, n) ==
    IF n > order THEN y
    ELSE IF n = 1
         THEN rc_hndl_loop_stale(y0,
                  [y EXCEPT ![1] = Add(y[1], Mul(alpha, Sub(in, y[1])))],
                  alpha, order, in, n + 1)
         ELSE rc_hndl_loop_stale(y0,
                  [y EXCEPT ![n] = Add(y[n], Mul(alpha, Sub(y0[n-1], y[n])))],
                  alpha, order, in, n + 1)

\* mutation: stage n reads the value stage n-1 held before this call
filter_rc_hndl_y_stale(inst, in) ==
    rc_hndl_loop_stale(inst.p_y, inst.p_y, inst.alpha, inst.order, in, 1)

\* the for loop of filter_rc_hndl from stage n on (stage n is p_y[n] here,
\* p_y[n-1] in the code)
RECURSIVE rc_hndl_loop(_, _, _, _, _)
rc_hndl_loop(y, alpha, order, in, n) ==
    IF n > order THEN y
    ELSE IF n = 1
         THEN rc_hndl_loop([y EXCEPT ![1] = Add(y[1], Mul(alpha, Sub(in, y[1])))],
                           alpha, order, in, n + 1)
         ELSE rc_hndl_loop([y EXCEPT ![n] = Add(y[n], Mul(alpha, Sub(y[n-1], y[n])))],
                           alpha, order, in, n + 1)

\* an update that adds alpha + 1 times the difference to each stage
filter_rc_hndl_y_overshoot(inst, in) ==
    rc_hndl_loop(inst.p_y, Add(inst.alpha, F(1)), inst.order, in, 1)

\* p_y after one filter_rc_hndl on an instance that passed the is_init test
filter_rc_hndl_y(inst, in) == rc_hndl_loop(inst.p_y, inst.alpha, inst.order, in, 1)

\* the input samples of the RC filter
RcSamples == {F(0), F(3), F(-3)}

filter_rc_hndl ==
    /\ ~crashed /\ calls < MaxCalls
    /\ UNCHANGED OtherThanRc
    /\ calls' = calls + 1
    /\ \E in \in RcSamples, p_out \in OutParams :
        LET a    == [NoArgs EXCEPT !.in = in, !.out0 = p_out.val, !.p_ok = p_out.ok]
            out0 == p_out.val
        IN
        IF ~(rc.ptr /\ p_out.ok)
        THEN /\ rc_call' = Call("rc_hndl", eFILTER_ERROR, a, rc, out0, FALSE)
             /\ UNCHANGED <<rc, crashed>>
        ELSE IF ~rc.is_init
        THEN /\ rc_call' = Call("rc_hndl", eFILTER_OK, a, rc, out0, FALSE)
             /\ UNCHANGED <<rc, crashed>>
        ELSE IF ~RcHndlMemOk(rc)
        THEN /\ rc_call' = Call("rc_hndl", TRAP, a, rc, out0, FALSE)
             /\ crashed' = TRUE
             /\ UNCHANGED rc
        ELSE LET y == filter_rc_hndl_y(rc, in)
             IN  /\ rc' = [rc EXCEPT !.p_y = y]
                 /\ rc_call' = Call("rc_hndl", eFILTER_OK, a, rc, y[rc.order], FALSE)
                 /\ UNCHANGED crashed

\* the instance after the for loop of filter_rc_reset
rc_reset_inst(inst, rst_value) ==
    [inst EXCEPT !.p_y = [i \in DOMAIN inst.p_y |->
                            IF i <= inst.order THEN rst_value ELSE inst.p_y[i]]]

filter_rc_reset ==
    /\ ~crashed /\ calls < MaxCalls
    /\ UNCHANGED OtherThanRc
    /\ calls' = calls + 1
    /\ \E rst_value \in Samples :
        LET a == [NoArgs EXCEPT !.v = rst_value]
        IN
        IF ~rc.ptr \/ ~rc.is_init
        THEN /\ rc_call' = Call("rc_reset", eFILTER_ERROR, a, rc, F(0), FALSE)
             /\ UNCHANGED <<rc, crashed>>
        ELSE IF ~RcResetMemOk(rc)
        THEN /\ rc_call' = Call("rc_reset", TRAP, a, rc, F(0), FALSE)
             /\ crashed' = TRUE
             /\ UNCHANGED rc
        ELSE /\ rc' = rc_reset_inst(rc, rst_value)
             /\ rc_call' = Call("rc_reset", eFILTER_OK, a, rc, F(0), FALSE)
             /\ UNCHANGED crashed

\* the instance after filter_rc_fc_set passed the null and is_init tests
rc_fc_set_inst(inst, fc) ==
    LET r == filter_rc_calculate_alpha(fc, inst.fs, F(0))
    IN  IF r.status = eFILTER_OK
        THEN [status |-> eFILTER_OK, inst |-> [inst EXCEPT !.alpha = r.alpha, !.fc = fc]]
        ELSE [status |-> r.status, inst |-> inst]

filter_rc_fc_set ==
    /\ ~crashed /\ calls < MaxCalls
    /\ UNCHANGED OtherThanRc
    /\ calls' = calls + 1
    /\ UNCHANGED crashed
    /\ \E fc \in Cutoffs :
        LET a == [NoArgs EXCEPT !.fc = fc]
        IN
        IF ~rc.ptr \/ ~rc.is_init
        THEN /\ rc_call' = Call("rc_fc_set", eFILTER_ERROR, a, rc, F(0), FALSE)
             /\ UNCHANGED rc
        ELSE LET r == rc_fc_set_inst(rc, fc)
             IN  /\ rc' = r.inst
                 /\ rc_call' = Call("rc_fc_set", r.status, a, rc, F(0), FALSE)

\* out is what *p_fc holds afterwards (out0 before)
filter_rc_fc_get ==
    /\ ~crashed /\ calls < MaxCalls
    /\ UNCHANGED OtherThanRc
    /\ calls' = calls + 1
    /\ UNCHANGED <<rc, crashed>>
    /\ \E p_out \in OutParams :
        LET a    == [NoArgs EXCEPT !.out0 = p_out.val, !.p_ok = p_out.ok]
            out0 == p_out.val
        IN
        IF rc.ptr /\ p_out.ok /\ rc.is_init
        THEN rc_call' = Call("rc_fc_get", eFILTER_OK, a, rc, rc.fc, FALSE)
        ELSE rc_call' = Call("rc_fc_get", eFILTER_ERROR, a, rc, out0, FALSE)

filter_rc_fs_get ==
    /\ ~crashed /\ calls < MaxCalls
    /\ UNCHANGED OtherThanRc
    /\ calls' = calls + 1
    /\ UNCHANGED <<rc, crashed>>
    /\ \E p_out \in OutParams :
        LET a    == [NoArgs EXCEPT !.out0 = p_out.val, !.p_ok = p_out.ok]
            out0 == p_out.val
        IN
        IF rc.ptr /\ p_out.ok /\ rc.is_init
        THEN rc_call' = Call("rc_fs_get", eFILTER_OK, a, rc, rc.fs, FALSE)
        ELSE rc_call' = Call("rc_fs_get", eFILTER_ERROR, a, rc, out0, FALSE)

(***************************************************************************)
(* CR filter.                                                              *)
(***************************************************************************)
\* filter_cr_t behind the caller's handle; ctor, fc_arg and fs_arg (the cutoff
\* and the sample rate of the constructor call that returned eFILTER_OK) are
\* bookkeeping, not fields of the struct
CrNull ==
    [ptr |-> FALSE, ctor |-> "none", fc_arg |-> F(0), fs_arg |-> F(0), is_init |-> FALSE, alpha |-> F(0),
     fc |-> F(0), fs |-> F(0), order |-> 0,
     p_y_ok |-> FALSE, p_y |-> <<>>, p_x_ok |-> FALSE, p_x |-> <<>>]

\* contents of a freshly allocated filter_cr_t (as IndeterminateRc)
IndeterminateCr ==
    { [is_init |-> FALSE, alpha |-> F(0), fc |-> F(0), fs |-> F(0), order |-> 0] }
    \cup [is_init : {TRUE}, alpha : Indeterminate, fc : Indeterminate,
          fs : IndeterminateRate, order : 0..MaxOrder]

\* mutation: a failed check is reported
filter_cr_calculate_alpha_checked(fc, fs, alpha) ==
    IF Lt(fc, Div(fs, F(2))) /\ Gt(fs, F(0)) /\ Gt(fc, F(0))
    THEN [status |-> eFILTER_OK,
          alpha  |-> Div(Div(F(1), Mul(FILTER_TWOPI, fc)),
                         Add(Div(F(1), fs), Div(F(1), Mul(FILTER_TWOPI, fc))))]
    ELSE [status |-> eFILTER_ERROR, alpha |-> alpha]

\* alpha is the value *p_alpha held before the call; the status is
\* eFILTER_OK on both paths
filter_cr_calculate_alpha(fc, fs, alpha) ==
    IF Lt(fc, Div(fs, F(2))) /\ Gt(fs, F(0)) /\ Gt(fc, F(0))
    THEN [status |-> eFILTER_OK,
          alpha  |-> Div(Div(F(1), Mul(FILTER_TWOPI, fc)),
                         Add(Div(F(1), fs), Div(F(1), Mul(FILTER_TWOPI, fc))))]
    ELSE [status |-> eFILTER_OK, alpha |-> alpha]

\* the instance filter_cr_init leaves when the three allocations succeeded;
\* g is the fresh struct's content, gy and gx the fresh arrays' contents
cr_init_allocated(fc, fs, order, g, gy, gx) ==
    LET r == filter_cr_calculate_alpha(fc, fs, g.alpha)
    IN  IF r.status = eFILTER_OK
        THEN [ptr |-> TRUE, ctor |-> eFILTER_OK, fc_arg |-> fc, fs_arg |-> fs,
              is_init |-> TRUE,
              alpha |-> r.alpha, fc |-> fc, fs |-> g.fs, order |-> order,
              p_y_ok |-> TRUE, p_y |-> [i \in 1..order |-> F(0)],
              p_x_ok |-> TRUE, p_x |-> [i \in 1..order |-> F(0)]]
        ELSE [ptr |-> TRUE, ctor |-> eFILTER_ERROR, fc_arg |-> F(0), fs_arg |-> F(0),
              is_init |-> g.is_init, alpha |-> g.alpha, fc |-> g.fc, fs |-> g.fs, order |-> g.order,
              p_y_ok |-> TRUE, p_y |-> gy, p_x_ok |-> TRUE, p_x |-> gx]

\* the instance filter_cr_init leaves when an array allocation failed
cr_init_no_array(g, m_y, m_x, gy, gx) ==
    [ptr |-> TRUE, ctor |-> eFILTER_ERROR, fc_arg |-> F(0), fs_arg |-> F(0),
     is_init |-> g.is_init, alpha |-> g.alpha, fc |-> g.fc, fs |-> g.fs, order |-> g.order,
     p_y_ok |-> m_y, p_y |-> IF m_y THEN gy ELSE <<>>,
     p_x_ok |-> m_x, p_x |-> IF m_x THEN gx ELSE <<>>]

\* the caller constructs into a handle that is still null
filter_cr_init ==
    /\ ~crashed /\ calls < MaxCalls
    /\ UNCHANGED OtherThanCr
    /\ ~cr.ptr
    /\ calls' = calls + 1
    /\ \E fc \in Cutoffs, fs \in Rates \cup {F(0)}, order \in 0..MaxOrder :
        LET a == [NoArgs EXCEPT !.fc = fc, !.fs = fs, !.order = order]
        IN
        \E p_inst_ok \in BOOLEAN :
            IF ~(p_inst_ok /\ order > 0)
            THEN /\ cr' = cr
                 /\ cr_call' = Call("cr_init", eFILTER_ERROR, a, cr, F(0), FALSE)
                 /\ crashed' = FALSE
            ELSE \E m_inst \in BOOLEAN :
                IF ~m_inst
                THEN \* (*p_filter_inst)->p_y is written through a null handle
                     \E trap \in BOOLEAN :
                        /\ cr' = CrNull
                        /\ cr_call' = Call("cr_init", IF trap THEN TRAP ELSE eFILTER_ERROR,
                                           a, cr, F(0), FALSE)
                        /\ crashed' = trap
                ELSE \E m_y \in BOOLEAN, m_x \in BOOLEAN, g \in IndeterminateCr :
                     \* what the fresh arrays hold can only be read when both
                     \* exist and the constructor did not overwrite them
                     LET kept == /\ m_y /\ m_x /\ g.is_init
                                 /\ filter_cr_calculate_alpha(fc, fs, g.alpha).status
                                        # eFILTER_OK
                     IN
                     \E gy \in IndeterminateArray(order, kept),
                        gx \in IndeterminateArray(order, kept) :
                        LET new == IF m_y /\ m_x
                                   THEN cr_init_allocated(fc, fs, order, g, gy, gx)
                                   ELSE cr_init_no_array(g, m_y, m_x, gy, gx)
                        IN  /\ cr' = new
                            /\ cr_call' = Call("cr_init", new.ctor, a, cr, F(0), FALSE)
                            /\ crashed' = FALSE

filter_cr_is_init ==
    /\ ~crashed /\ calls < MaxCalls
    /\ UNCHANGED OtherThanCr
    /\ calls' = calls + 1
    /\ UNCHANGED <<cr, crashed>>
    /\ \E p_ok \in BOOLEAN :
        IF cr.ptr /\ p_ok
        THEN cr_call' = Call("cr_is_init", eFILTER_OK, [NoArgs EXCEPT !.p_ok = p_ok],
                             cr, F(0), cr.is_init)
        ELSE cr_call' = Call("cr_is_init", eFILTER_ERROR, [NoArgs EXCEPT !.p_ok = p_ok],
                             cr, F(0), FALSE)

\* every p_y[i] and p_x[i] the handler and reset touch lies inside its array
CrHndlMemOk(inst) ==
    /\ inst.p_y_ok /\ inst.order \in 1..Len(inst.p_y)
    /\ inst.p_x_ok /\ inst.order \in 1..Len(inst.p_x)

CrResetMemOk(inst) == inst.order = 0 \/ CrHndlMemOk(inst)

RECURSIVE cr_hndl_loop_early(_, _, _, _, _)
cr_hndl_loop_early(s, alpha, order, in, n) ==
    IF n > order THEN s
    ELSE LET prev == IF n = 1 THEN in ELSE s.y[n-1]
             x1   == [s.x EXCEPT ![n] = prev]
             y1   == [s.y EXCEPT ![n] = Add(Mul(alpha, s.y[n]),
                                            Mul(alpha, Sub(prev, x1[n])))]
         IN  cr_hndl_loop_early([y |-> y1, x |-> x1], alpha, order, in, n + 1)

\* mutation: each stage stores its new previous input before using the old one
filter_cr_hndl_yx_early(inst, in) ==
    cr_hndl_loop_early([y |-> inst.p_y, x |-> inst.p_x], inst.alpha, inst.order, in, 1)

\* the for loop of filter_cr_hndl from stage n on (stage n is p_y[n], p_x[n]
\* here, p_y[n-1], p_x[n-1] in the code)
RECURSIVE cr_hndl_loop(_, _, _, _, _)
cr_hndl_loop(s, alpha, order, in, n) ==
    IF n > order THEN s
    ELSE LET prev == IF n = 1 THEN in ELSE s.y[n-1]
             y1   == [s.y EXCEPT ![n] = Add(Mul(alpha, s.y[n]),
                                            Mul(alpha, Sub(prev, s.x[n])))]
             x1   == [s.x EXCEPT ![n] = prev]
         IN  cr_hndl_loop([y |-> y1, x |-> x1], alpha, order, in, n + 1)

\* p_y and p_x after one filter_cr_hndl on an instance that passed the
\* is_init test
filter_cr_hndl_yx(inst, in) ==
    cr_hndl_loop([y |-> inst.p_y, x |-> inst.p_x], inst.alpha, inst.order, in, 1)

\* a null handle or null p_out leaves status at eFILTER_OK
filter_cr_hndl ==
    /\ ~crashed /\ calls < MaxCalls
    /\ UNCHANGED OtherThanCr
    /\ calls' = calls + 1
    /\ \E in \in Samples, p_out \in OutParams :
        LET a    == [NoArgs EXCEPT !.in = in, !.out0 = p_out.val, !.p_ok = p_out.ok]
            out0 == p_out.val
        IN
        IF ~(cr.ptr /\ p_out.ok) \/ ~cr.is_init
        THEN /\ cr_call' = Call("cr_hndl", eFILTER_OK, a, cr, out0, FALSE)
             /\ UNCHANGED <<cr, crashed>>
        ELSE IF ~CrHndlMemOk(cr)
        THEN /\ cr_call' = Call("cr_hndl", TRAP, a, cr, out0, FALSE)
             /\ crashed' = TRUE
             /\ UNCHANGED cr
        ELSE LET s == filter_cr_hndl_yx(cr, in)
             IN  /\ cr' = [cr EXCEPT !.p_y = s.y, !.p_x = s.x]
                 /\ cr_call' = Call("cr_hndl", eFILTER_OK, a, cr, s.y[cr.order], FALSE)
                 /\ UNCHANGED crashed

\* a reset that clears the previous outputs and keeps the previous inputs
cr_reset_inst_y_only(inst) ==
    [inst EXCEPT !.p_y = [i \in DOMAIN inst.p_y |->
                            IF i <= inst.order THEN F(0) ELSE inst.p_y[i]]]

\* the instance after the for loop of filter_cr_reset
cr_reset_inst(inst) ==
    [inst EXCEPT !.p_y = [i \in DOMAIN inst.p_y |->
                            IF i <= inst.order THEN F(0) ELSE inst.p_y[i]],
                 !.p_x = [i \in DOMAIN inst.p_x |->
                            IF i <= inst.order THEN F(0) ELSE inst.p_x[i]]]

filter_cr_reset ==
    /\ ~crashed /\ calls < MaxCalls
    /\ UNCHANGED OtherThanCr
    /\ calls' = calls + 1
    /\ IF ~cr.ptr \/ ~cr.is_init
       THEN /\ cr_call' = Call("cr_reset", eFILTER_ERROR, NoArgs, cr, F(0), FALSE)
            /\ UNCHANGED <<cr, crashed>>
       ELSE IF ~CrResetMemOk(cr)
       THEN /\ cr_call' = Call("cr_reset", TRAP, NoArgs, cr, F(0), FALSE)
            /\ crashed' = TRUE
            /\ UNCHANGED cr
       ELSE /\ cr' = cr_reset_inst(cr)
            /\ cr_call' = Call("cr_reset", eFILTER_OK, NoArgs, cr, F(0), FALSE)
            /\ UNCHANGED crashed

\* the instance after filter_cr_fc_set passed the null and is_init tests;
\* the local alpha starts at 0.0f
cr_fc_set_inst(inst, fc) ==
    LET r == filter_cr_calculate_alpha(fc, inst.fs, F(0))
    IN  IF r.status = eFILTER_OK
        THEN [status |-> eFILTER_OK, inst |-> [inst EXCEPT !.alpha = r.alpha, !.fc = fc]]
        ELSE [status |-> r.status, inst |-> inst]

filter_cr_fc_set ==
    /\ ~crashed /\ calls < MaxCalls
    /\ UNCHANGED OtherThanCr
    /\ calls' = calls + 1
    /\ UNCHANGED crashed
    /\ \E fc \in Cutoffs :
        LET a == [NoArgs EXCEPT !.fc = fc]
        IN
        IF ~cr.ptr \/ ~cr.is_init
        THEN /\ cr_call' = Call("cr_fc_set", eFILTER_ERROR, a, cr, F(0), FALSE)
             /\ UNCHANGED cr
        ELSE LET r == cr_fc_set_inst(cr, fc)
             IN  /\ cr' = r.inst
                 /\ cr_call' = Call("cr_fc_set", r.status, a, cr, F(0), FALSE)

filter_cr_fc_get ==
    /\ ~crashed /\ calls < MaxCalls
    /\ UNCHANGED OtherThanCr
    /\ calls' = calls + 1
    /\ UNCHANGED <<cr, crashed>>
    /\ \E p_out \in OutParams :
        LET a    == [NoArgs EXCEPT !.out0 = p_out.val, !.p_ok = p_out.ok]
            out0 == p_out.val
        IN
        IF cr.ptr /\ p_out.ok /\ cr.is_init
        THEN cr_call' = Call("cr_fc_get", eFILTER_OK, a, cr, cr.fc, FALSE)
        ELSE cr_call' = Call("cr_fc_get", eFILTER_ERROR, a, cr, out0, FALSE)

filter_cr_fs_get ==
    /\ ~crashed /\ calls < MaxCalls
    /\ UNCHANGED OtherThanCr
    /\ calls' = calls + 1
    /\ UNCHANGED <<cr, crashed>>
    /\ \E p_out \in OutParams :
        LET a    == [NoArgs EXCEPT !.out0 = p_out.val, !.p_ok = p_out.ok]
            out0 == p_out.val
        IN
        IF cr.ptr /\ p_out.ok /\ cr.is_init
        THEN cr_call' = Call("cr_fs_get", eFILTER_OK, a, cr, cr.fs, FALSE)
        ELSE cr_call' = Call("cr_fs_get", eFILTER_ERROR, a, cr, out0, FALSE)

(***************************************************************************)
(* Ring buffer (the delay line FIR and IIR keep their samples in).         *)
(***************************************************************************)
\* a ring buffer of float32_t items: size is its capacity, items what it
\* holds, oldest first
ring_buffer_init(size) == [size |-> size, items |-> <<>>]

\* no ring buffer was created
RbNull == ring_buffer_init(0)

\* push, overwriting the oldest item once the buffer is full
ring_buffer_add(rb, val) ==
    IF rb.size = 0 THEN rb
    ELSE IF Len(rb.items) < rb.size
    THEN [rb EXCEPT !.items = Append(rb.items, val)]
    ELSE [rb EXCEPT !.items = Append(Tail(rb.items), val)]

\* the item at idx, where idx = -1 is the newest item, -2 the one before it
\* and idx = 0 the oldest; val (what the caller's variable held) when there is
\* no such item
ring_buffer_get_by_index(rb, val, idx) ==
    LET n == Len(rb.items)
    IN  IF idx < 0
        THEN IF -idx <= n THEN rb.items[n + idx + 1] ELSE val
        ELSE IF idx < n THEN rb.items[idx + 1] ELSE val

ring_buffer_get_size(rb) == rb.size

ring_buffer_reset(rb) == [rb EXCEPT !.items = <<>>]

RECURSIVE buf_fill_loop(_, _, _)
buf_fill_loop(rb, val, n) ==
    IF n = 0 THEN rb ELSE buf_fill_loop(ring_buffer_add(rb, val), val, n - 1)

\* as many pushes of val as the buffer has room for
filter_buf_fill(rb, val) == buf_fill_loop(rb, val, ring_buffer_get_size(rb))

(***************************************************************************)
(* FIR filter.                                                             *)
(***************************************************************************)
\* the last n items of s
Recent(s, n) == IF Len(s) <= n THEN s ELSE SubSeq(s, Len(s) - n + 1, Len(s))

\* filter_fir_t behind the caller's handle.  ctor, v0 (the value the buffer
\* was last filled with) and hist (the inputs handled since then, oldest
\* first, the last order of them) are bookkeeping, not fields of the struct.
FirNull ==
    [ptr |-> FALSE, ctor |-> "none", is_init |-> FALSE, order |-> 0,
     p_a_ok |-> FALSE, p_a |-> <<>>, p_x_ok |-> FALSE, p_x |-> RbNull,
     v0 |-> F(0), hist |-> <<>>]

\* contents of a freshly allocated filter_fir_t
IndeterminateFir ==
    { [is_init |-> FALSE, order |-> 0] }
    \cup [is_init : {TRUE}, order : 0..MaxOrder]

\* a coefficient array argument: a null pointer, or n coefficients of which
\* the first two vary
CoeffArrays(n) ==
    {[ok |-> FALSE, val |-> <<>>]}
    \cup [ok : {TRUE},
          val : {[i \in 1..n |-> IF i <= 2 THEN h[i] ELSE F(1)] :
                    h \in [1..(IF n < 2 THEN n ELSE 2) -> Coeffs]}]

\* the instance filter_fir_init leaves when the coefficient array and the
\* ring buffer were created
fir_init_allocated(p_a, order, init_value) ==
    [ptr |-> TRUE, ctor |-> eFILTER_OK, is_init |-> TRUE, order |-> order,
     p_a_ok |-> TRUE, p_a |-> [i \in 1..order |-> p_a[i]],
     p_x_ok |-> TRUE, p_x |-> filter_buf_fill(ring_buffer_init(order), init_value),
     v0 |-> init_value, hist |-> <<>>]

\* the instance filter_fir_init leaves when one of them was not; g is the
\* fresh struct's content, ga the fresh coefficient array's
fir_init_failed(order, g, m_a, m_x, ga) ==
    [ptr |-> TRUE, ctor |-> eFILTER_ERROR, is_init |-> g.is_init, order |-> g.order,
     p_a_ok |-> m_a, p_a |-> IF m_a THEN ga ELSE <<>>,
     p_x_ok |-> m_x, p_x |-> IF m_x THEN ring_buffer_init(order) ELSE RbNull,
     v0 |-> F(0), hist |-> <<>>]

\* the caller constructs into a handle that is still null
filter_fir_init ==
    /\ ~crashed /\ calls < MaxCalls
    /\ UNCHANGED OtherThanFir
    /\ ~fir.ptr
    /\ calls' = calls + 1
    /\ UNCHANGED crashed
    /\ \E order \in 0..MaxOrder, init_value \in Samples, p_inst_ok \in BOOLEAN :
       \E p_a \in CoeffArrays(order) :
        LET a == [NoArgs EXCEPT !.order = order, !.v = init_value, !.coeff = p_a.val,
                                !.p_ok = p_a.ok]
        IN
        IF ~(p_inst_ok /\ order > 0 /\ p_a.ok)
        THEN /\ fir' = fir
             /\ fir_call' = Call("fir_init", eFILTER_ERROR, a, fir, F(0), FALSE)
        ELSE \E m_inst \in BOOLEAN :
            IF ~m_inst
            THEN /\ fir' = FirNull
                 /\ fir_call' = Call("fir_init", eFILTER_ERROR, a, fir, F(0), FALSE)
            ELSE \E m_a \in BOOLEAN, m_x \in BOOLEAN, g \in IndeterminateFir :
                 \E ga \in IndeterminateArray(order, g.is_init) :
                    LET new == IF m_a /\ m_x
                               THEN fir_init_allocated(p_a.val, order, init_value)
                               ELSE fir_init_failed(order, g, m_a, m_x, ga)
                    IN  /\ fir' = new
                        /\ fir_call' = Call("fir_init", new.ctor, a, fir, F(0), FALSE)

filter_fir_is_init ==
    /\ ~crashed /\ calls < MaxCalls
    /\ UNCHANGED OtherThanFir
    /\ calls' = calls + 1
    /\ UNCHANGED <<fir, crashed>>
    /\ \E p_ok \in BOOLEAN :
        IF fir.ptr /\ p_ok
        THEN fir_call' = Call("fir_is_init", eFILTER_OK, [NoArgs EXCEPT !.p_ok = p_ok],
                              fir, F(0), fir.is_init)
        ELSE fir_call' = Call("fir_is_init", eFILTER_ERROR, [NoArgs EXCEPT !.p_ok = p_ok],
                              fir, F(0), FALSE)

\* the ring buffer exists and every p_a[i] the handler reads lies inside the
\* coefficient array
FirHndlMemOk(inst) ==
    /\ inst.p_x_ok
    /\ inst.order = 0 \/ (inst.p_a_ok /\ inst.order <= Len(inst.p_a))

\* the for loop of filter_fir_hndl from iteration i on; out is *p_out and
\* buf_val the local the buffer is read into
RECURSIVE fir_hndl_loop(_, _, _, _, _, _)
fir_hndl_loop(p_a, p_x, order, out, buf_val, i) ==
    IF i >= order THEN out
    ELSE LET b == ring_buffer_get_by_index(p_x, buf_val, (-i) - 1)
         IN  fir_hndl_loop(p_a, p_x, order, Add(out, Mul(p_a[i + 1], b)), b, i + 1)

\* *p_out after one filter_fir_hndl on an instance that passed the is_init
\* test, when *p_out held out0 before the call
filter_fir_hndl_out(inst, in, out0) ==
    fir_hndl_loop(inst.p_a, ring_buffer_add(inst.p_x, in), inst.order, out0, F(0), 0)

\* a null handle, a null p_out and an instance that is not initialized all
\* leave status at eFILTER_OK
filter_fir_hndl ==
    /\ ~crashed /\ calls < MaxCalls
    /\ UNCHANGED OtherThanFir
    /\ calls' = calls + 1
    /\ \E in \in Samples, p_out \in OutParams :
        LET a    == [NoArgs EXCEPT !.in = in, !.out0 = p_out.val, !.p_ok = p_out.ok]
            out0 == p_out.val
        IN
        IF ~(fir.ptr /\ p_out.ok)
        THEN /\ fir_call' = Call("fir_hndl", eFILTER_OK, a, fir, out0, FALSE)
             /\ UNCHANGED <<fir, crashed>>
        ELSE IF ~fir.is_init
        THEN /\ fir_call' = Call("fir_hndl", eFILTER_OK, a, fir, out0, FALSE)
             /\ UNCHANGED <<fir, crashed>>
        ELSE IF ~FirHndlMemOk(fir)
        THEN /\ fir_call' = Call("fir_hndl", TRAP, a, fir, out0, FALSE)
             /\ crashed' = TRUE
             /\ UNCHANGED fir
        ELSE /\ fir' = [fir EXCEPT !.p_x = ring_buffer_add(fir.p_x, in),
                                   !.hist = Recent(Append(fir.hist, in), fir.order)]
             /\ fir_call' = Call("fir_hndl", eFILTER_OK, a, fir,
                                 filter_fir_hndl_out(fir, in, out0), FALSE)
             /\ UNCHANGED crashed

\* the instance after ring_buffer_reset and filter_buf_fill in
\* filter_fir_reset
fir_reset_inst(inst, rst_value) ==
    [inst EXCEPT !.p_x = filter_buf_fill(ring_buffer_reset(inst.p_x), rst_value),
                 !.v0 = rst_value, !.hist = <<>>]

filter_fir_reset ==
    /\ ~crashed /\ calls < MaxCalls
    /\ UNCHANGED OtherThanFir
    /\ calls' = calls + 1
    /\ \E rst_value \in Samples :
        LET a == [NoArgs EXCEPT !.v = rst_value]
        IN
        IF ~fir.ptr \/ ~fir.is_init
        THEN /\ fir_call' = Call("fir_reset", eFILTER_ERROR, a, fir, F(0), FALSE)
             /\ UNCHANGED <<fir, crashed>>
        ELSE IF ~fir.p_x_ok
        THEN /\ fir_call' = Call("fir_reset", TRAP, a, fir, F(0), FALSE)
             /\ crashed' = TRUE
             /\ UNCHANGED fir
        ELSE /\ fir' = fir_reset_inst(fir, rst_value)
             /\ fir_call' = Call("fir_reset", eFILTER_OK, a, fir, F(0), FALSE)
             /\ UNCHANGED crashed

\* a coefficient_replace that also empties the delay line
fir_coeff_set_inst_flush(inst, p_a) ==
    [inst EXCEPT !.p_a = [i \in DOMAIN inst.p_a |->
                            IF i <= inst.order THEN p_a[i] ELSE inst.p_a[i]],
                 !.p_x = filter_buf_fill(ring_buffer_reset(inst.p_x), F(0))]

\* the instance after the memcpy of filter_fir_coeff_set: inst.order
\* coefficients are copied from the caller's array p_a
fir_coeff_set_inst(inst, p_a) ==
    [inst EXCEPT !.p_a = [i \in DOMAIN inst.p_a |->
                            IF i <= inst.order THEN p_a[i] ELSE inst.p_a[i]]]

\* the caller's array holds as many coefficients as the instance's order
filter_fir_coeff_set ==
    /\ ~crashed /\ calls < MaxCalls
    /\ UNCHANGED OtherThanFir
    /\ calls' = calls + 1
    /\ \E p_a \in CoeffArrays(fir.order) :
        LET a == [NoArgs EXCEPT !.coeff = p_a.val, !.p_ok = p_a.ok]
        IN
        IF ~(fir.ptr /\ p_a.ok) \/ ~fir.is_init
        THEN /\ fir_call' = Call("fir_coeff_set", eFILTER_ERROR, a, fir, F(0), FALSE)
             /\ UNCHANGED <<fir, crashed>>
        ELSE IF ~(fir.order = 0 \/ (fir.p_a_ok /\ fir.order <= Len(fir.p_a)))
        THEN /\ fir_call' = Call("fir_coeff_set", TRAP, a, fir, F(0), FALSE)
             /\ crashed' = TRUE
             /\ UNCHANGED fir
        ELSE /\ fir' = fir_coeff_set_inst(fir, p_a.val)
             /\ fir_call' = Call("fir_coeff_set", eFILTER_OK, a, fir, F(0), FALSE)
             /\ UNCHANGED crashed

\* *pp_a is made to point at the instance's own coefficient array; the call
\* record's coeff is what that pointer reads
filter_fir_coeff_get ==
    /\ ~crashed /\ calls < MaxCalls
    /\ UNCHANGED OtherThanFir
    /\ calls' = calls + 1
    /\ UNCHANGED <<fir, crashed>>
    /\ \E p_ok \in BOOLEAN :
        LET a == [NoArgs EXCEPT !.p_ok = p_ok]
        IN
        IF ~(fir.ptr /\ p_ok) \/ ~fir.is_init
        THEN fir_call' = Call("fir_coeff_get", eFILTER_ERROR, a, fir, F(0), FALSE)
        ELSE fir_call' = Call("fir_coeff_get", eFILTER_OK,
                              [a EXCEPT !.coeff = fir.p_a], fir, F(0), fir.p_a_ok)
(***************************************************************************)
(* IIR filter.                                                             *)
(***************************************************************************)
\* filter_iir_t behind the caller's handle; coeff.num_of_pole, coeff.p_pole,
\* coeff.num_of_zero and coeff.p_zero are num_of_pole, p_pole, num_of_zero and
\* p_zero here.  ctor, xs and ys (the inputs handled and the outputs produced
\* since the buffers were last zero-filled, oldest first, the last num_of_zero
\* and num_of_pole of them) are bookkeeping, not
\* fields of the struct.
IirNull ==
    [ptr |-> FALSE, ctor |-> "none", is_init |-> FALSE,
     num_of_pole |-> 0, p_pole_ok |-> FALSE, p_pole |-> <<>>,
     num_of_zero |-> 0, p_zero_ok |-> FALSE, p_zero |-> <<>>,
     p_x_ok |-> FALSE, p_x |-> RbNull, p_y_ok |-> FALSE, p_y |-> RbNull,
     xs |-> <<>>, ys |-> <<>>]

\* contents of a freshly allocated filter_iir_t.  While is_init reads false
\* no operation looks at the other fields.
IndeterminateIir ==
    { [is_init |-> FALSE, num_of_pole |-> 0, num_of_zero |-> 0] }
    \cup [is_init : {TRUE}, num_of_pole : {0, MaxOrder}, num_of_zero : {0, MaxOrder}]

\* contents of a freshly allocated coefficient array of n items
IndeterminateCoeffs(n, g) == [i \in 1..n |-> g]

\* the input samples of the IIR filter
IirSamples == {F(1), F(3)}

\* a coefficient array argument: a null pointer, or n coefficients of which
\* the first is one of heads
IirCoeffArrays(n, heads) ==
    {[ok |-> FALSE, val |-> <<>>]}
    \cup [ok : {TRUE}, val : {[i \in 1..n |-> IF i = 1 THEN h ELSE F(1)] : h \in heads}]

\* the filter_iir_coeff_t structs whose arrays hold np pole and nz zero
\* coefficients, or are null pointers
IirCoeffOfSize(np, nz) ==
    [num_of_pole : {np}, num_of_zero : {nz},
     p_pole : IirCoeffArrays(np, Coeffs), p_zero : IirCoeffArrays(nz, {F(1), F(2)})]

\* the filter_iir_coeff_t structs a caller passes
IirCoeff ==
    UNION { IirCoeffOfSize(np, nz) : <<np, nz>> \in (0..MaxOrder) \X (0..MaxOrder) }

\* the instance filter_iir_init leaves when both ring buffers and both
\* coefficient arrays were created
iir_init_allocated(c) ==
    [ptr |-> TRUE, ctor |-> eFILTER_OK, is_init |-> TRUE,
     num_of_pole |-> c.num_of_pole, p_pole_ok |-> TRUE,
     p_pole |-> [i \in 1..c.num_of_pole |-> c.p_pole.val[i]],
     num_of_zero |-> c.num_of_zero, p_zero_ok |-> TRUE,
     p_zero |-> [i \in 1..c.num_of_zero |-> c.p_zero.val[i]],
     p_x_ok |-> TRUE, p_x |-> filter_buf_fill(ring_buffer_init(c.num_of_zero), F(0)),
     p_y_ok |-> TRUE, p_y |-> filter_buf_fill(ring_buffer_init(c.num_of_pole), F(0)),
     xs |-> <<>>, ys |-> <<>>]

\* the instance filter_iir_init leaves when one of them was not.  g is the
\* fresh struct's content and gc what the fresh coefficient arrays hold;
\* m_buf: both ring buffers were created (buf_status is eRING_BUFFER_OK).
iir_init_failed(c, g, m_buf, m_pole, m_zero, gc) ==
    IF ~g.is_init
    THEN [IirNull EXCEPT !.ptr = TRUE, !.ctor = eFILTER_ERROR]
    ELSE [ptr |-> TRUE, ctor |-> eFILTER_ERROR, is_init |-> TRUE,
          num_of_pole |-> g.num_of_pole, p_pole_ok |-> m_pole,
          p_pole |-> IF m_pole THEN IndeterminateCoeffs(c.num_of_pole, gc) ELSE <<>>,
          num_of_zero |-> g.num_of_zero, p_zero_ok |-> m_zero,
          p_zero |-> IF m_zero THEN IndeterminateCoeffs(c.num_of_zero, gc) ELSE <<>>,
          p_x_ok |-> m_buf,
          p_x |-> IF m_buf THEN ring_buffer_init(c.num_of_zero) ELSE RbNull,
          p_y_ok |-> m_buf,
          p_y |-> IF m_buf THEN ring_buffer_init(c.num_of_pole) ELSE RbNull,
          xs |-> <<>>, ys |-> <<>>]

\* the caller constructs into a handle that is still null.  p_coeff is read
\* without a null test: with a null p_coeff the call traps or goes on with
\* whatever c the reads produce.
filter_iir_init ==
    /\ ~crashed /\ calls < MaxCalls
    /\ UNCHANGED OtherThanIir
    /\ ~iir.ptr
    /\ calls' = calls + 1
    /\ \E p_inst_ok \in BOOLEAN, p_coeff_ok \in BOOLEAN, c \in IirCoeff :
        LET a == [NoArgs EXCEPT !.coeff = IF p_coeff_ok THEN c ELSE <<>>,
                                !.p_ok = p_coeff_ok]
        IN
        \/ /\ ~p_coeff_ok
           /\ iir' = iir
           /\ iir_call' = Call("iir_init", TRAP, a, iir, F(0), FALSE)
           /\ crashed' = TRUE
        \/ /\ crashed' = FALSE
           /\ IF ~(/\ p_inst_ok
                   /\ c.num_of_pole > 0 /\ c.num_of_zero > 0
                   /\ c.p_pole.ok /\ c.p_zero.ok)
              THEN /\ iir' = iir
                   /\ iir_call' = Call("iir_init", eFILTER_ERROR, a, iir, F(0), FALSE)
              ELSE \E m_inst \in BOOLEAN :
                  IF ~m_inst
                  THEN /\ iir' = IirNull
                       /\ iir_call' = Call("iir_init", eFILTER_ERROR, a, iir, F(0), FALSE)
                  ELSE \E m_buf \in BOOLEAN, m_pole \in BOOLEAN, m_zero \in BOOLEAN :
                      IF m_buf /\ m_pole /\ m_zero
                      THEN /\ iir' = iir_init_allocated(c)
                           /\ iir_call' = Call("iir_init", eFILTER_OK, a, iir, F(0), FALSE)
                      ELSE \E g \in IndeterminateIir, gc \in Indeterminate :
                           /\ iir' = iir_init_failed(c, g, m_buf, m_pole, m_zero, gc)
                           /\ iir_call' = Call("iir_init", eFILTER_ERROR, a, iir,
                                               F(0), FALSE)

filter_iir_is_init ==
    /\ ~crashed /\ calls < MaxCalls
    /\ UNCHANGED OtherThanIir
    /\ calls' = calls + 1
    /\ UNCHANGED <<iir, crashed>>
    /\ \E p_ok \in BOOLEAN :
        IF iir.ptr /\ p_ok
        THEN iir_call' = Call("iir_is_init", eFILTER_OK, [NoArgs EXCEPT !.p_ok = p_ok],
                              iir, F(0), iir.is_init)
        ELSE iir_call' = Call("iir_is_init", eFILTER_ERROR, [NoArgs EXCEPT !.p_ok = p_ok],
                              iir, F(0), FALSE)

\* both ring buffers exist, every p_zero[i] and p_pole[i] the handler reads
\* (p_pole[0] always) lies inside its array, and p_out, which is written
\* without a null test, is not null
IirHndlMemOk(inst, p_out_ok) ==
    /\ p_out_ok
    /\ inst.p_x_ok /\ inst.p_y_ok
    /\ inst.num_of_zero = 0 \/ (inst.p_zero_ok /\ inst.num_of_zero <= Len(inst.p_zero))
    /\ inst.p_pole_ok /\ Len(inst.p_pole) >= 1 /\ inst.num_of_pole <= Len(inst.p_pole)

\* the first for loop of filter_iir_hndl from iteration i on; the result is
\* <<*p_out, buf_val>>
RECURSIVE iir_hndl_zeros(_, _, _, _, _, _)
iir_hndl_zeros(p_zero, p_x, num_of_zero, out, buf_val, i) ==
    IF i >= num_of_zero THEN <<out, buf_val>>
    ELSE LET b == ring_buffer_get_by_index(p_x, buf_val, (-i) - 1)
         IN  iir_hndl_zeros(p_zero, p_x, num_of_zero, Add(out, Mul(p_zero[i + 1], b)),
                            b, i + 1)

\* the second for loop of filter_iir_hndl from iteration i on; the result
\* is *p_out
RECURSIVE iir_hndl_poles(_, _, _, _, _, _)
iir_hndl_poles(p_pole, p_y, num_of_pole, out, buf_val, i) ==
    IF i >= num_of_pole THEN out
    ELSE LET b == ring_buffer_get_by_index(p_y, buf_val, -i)
         IN  iir_hndl_poles(p_pole, p_y, num_of_pole, Sub(out, Mul(p_pole[i + 1], b)),
                            b, i + 1)

\* mutation: the accumulated value is divided by p_pole[0] whatever it is
filter_iir_hndl_out_unguarded(inst, in, out0) ==
    LET z   == iir_hndl_zeros(inst.p_zero, ring_buffer_add(inst.p_x, in),
                              inst.num_of_zero, out0, F(0), 0)
        acc == iir_hndl_poles(inst.p_pole, inst.p_y, inst.num_of_pole, z[1], z[2], 1)
    IN  Div(acc, inst.p_pole[1])

\* *p_out after one filter_iir_hndl on an instance that passed the is_init
\* test, when *p_out held out0 before the call
filter_iir_hndl_out(inst, in, out0) ==
    LET z   == iir_hndl_zeros(inst.p_zero, ring_buffer_add(inst.p_x, in),
                              inst.num_of_zero, out0, F(0), 0)
        acc == iir_hndl_poles(inst.p_pole, inst.p_y, inst.num_of_pole, z[1], z[2], 1)
    IN  IF FEq(inst.p_pole[1], F(0)) THEN NAN ELSE Div(acc, inst.p_pole[1])

\* the input and the out-parameter of an IIR update: a sample and one of
\* OutParams, or the sample 1 and a location that holds not-a-number (as an
\* earlier update with p_pole[0] = 0 leaves it)
IirHndlArgs ==
    (IirSamples \X OutParams) \cup {<<F(1), [ok |-> TRUE, val |-> NAN]>>}

\* a null handle and an instance that is not initialized leave status at
\* eFILTER_OK
filter_iir_hndl ==
    /\ ~crashed /\ calls < MaxCalls
    /\ UNCHANGED OtherThanIir
    /\ calls' = calls + 1
    /\ \E args \in IirHndlArgs :
        LET in    == args[1]
            p_out == args[2]
            a     == [NoArgs EXCEPT !.in = in, !.out0 = p_out.val, !.p_ok = p_out.ok]
            out0  == p_out.val
        IN
        IF ~iir.ptr \/ ~iir.is_init
        THEN /\ iir_call' = Call("iir_hndl", eFILTER_OK, a, iir, out0, FALSE)
             /\ UNCHANGED <<iir, crashed>>
        ELSE IF ~IirHndlMemOk(iir, p_out.ok)
        THEN /\ iir_call' = Call("iir_hndl", TRAP, a, iir, out0, FALSE)
             /\ crashed' = TRUE
             /\ UNCHANGED iir
        ELSE LET out == filter_iir_hndl_out(iir, in, out0)
             IN  /\ iir' = [iir EXCEPT !.p_x = ring_buffer_add(iir.p_x, in),
                                       !.p_y = ring_buffer_add(iir.p_y, out),
                                       !.xs = Recent(Append(iir.xs, in),
                                                     iir.num_of_zero),
                                       !.ys = Recent(Append(iir.ys, out),
                                                     iir.num_of_pole)]
                 /\ iir_call' = Call("iir_hndl", eFILTER_OK, a, iir, out, FALSE)
                 /\ UNCHANGED crashed

\* a reset that zero-fills the input delay line only
iir_reset_inst_x_only(inst) ==
    [inst EXCEPT !.p_x = filter_buf_fill(inst.p_x, F(0)),
                 !.xs = <<>>, !.ys = <<>>]

\* the instance after the two filter_buf_fill calls of filter_iir_reset
iir_reset_inst(inst) ==
    [inst EXCEPT !.p_x = filter_buf_fill(inst.p_x, F(0)),
                 !.p_y = filter_buf_fill(inst.p_y, F(0)),
                 !.xs = <<>>, !.ys = <<>>]

filter_iir_reset ==
    /\ ~crashed /\ calls < MaxCalls
    /\ UNCHANGED OtherThanIir
    /\ calls' = calls + 1
    /\ IF ~iir.ptr \/ ~iir.is_init
       THEN /\ iir_call' = Call("iir_reset", eFILTER_ERROR, NoArgs, iir, F(0), FALSE)
            /\ UNCHANGED <<iir, crashed>>
       ELSE IF ~(iir.p_x_ok /\ iir.p_y_ok)
       THEN /\ iir_call' = Call("iir_reset", TRAP, NoArgs, iir, F(0), FALSE)
            /\ crashed' = TRUE
            /\ UNCHANGED iir
       ELSE /\ iir' = iir_reset_inst(iir)
            /\ iir_call' = Call("iir_reset", eFILTER_OK, NoArgs, iir, F(0), FALSE)
            /\ UNCHANGED crashed

\* the two memcpy calls write num_of_pole and num_of_zero items: both lie
\* inside the instance's arrays
IirCoeffSetMemOk(inst) ==
    /\ inst.num_of_pole = 0
       \/ (inst.p_pole_ok /\ inst.num_of_pole <= Len(inst.p_pole))
    /\ inst.num_of_zero = 0
       \/ (inst.p_zero_ok /\ inst.num_of_zero <= Len(inst.p_zero))

\* a memcpy reads past the end of the caller's array (a null pointer is an
\* array of no items)
IirCoeffSetShort(inst, c) ==
    \/ Len(c.p_pole.val) < inst.num_of_pole
    \/ Len(c.p_zero.val) < inst.num_of_zero

\* dst after memcpy( dst, src, n * sizeof(float32_t) ), where the reads past
\* the end of src produce g
iir_memcpy(dst, src, n, g) ==
    [i \in DOMAIN dst |-> IF i > n THEN dst[i]
                          ELSE IF i <= Len(src) THEN src[i] ELSE g]

\* a coefficient_replace that also takes over the counts of c
iir_coeff_set_inst_counts(inst, c, g) ==
    [inst EXCEPT !.p_pole = iir_memcpy(inst.p_pole, c.p_pole.val, inst.num_of_pole, g),
                 !.p_zero = iir_memcpy(inst.p_zero, c.p_zero.val, inst.num_of_zero, g),
                 !.num_of_pole = c.num_of_pole,
                 !.num_of_zero = c.num_of_zero]

\* the instance after filter_iir_coeff_set passed its null and is_init tests:
\* the instance's own counts are copied, whatever counts c gives
iir_coeff_set_inst(inst, c, g) ==
    [inst EXCEPT !.p_pole = iir_memcpy(inst.p_pole, c.p_pole.val, inst.num_of_pole, g),
                 !.p_zero = iir_memcpy(inst.p_zero, c.p_zero.val, inst.num_of_zero, g)]

\* filter_iir_coeff_t structs whose counts are not np and nz: one with a
\* coefficient more of each kind and one with a coefficient less, all
\* coefficients 2
IirCoeffOfOtherSize(np, nz) ==
    { [num_of_pole |-> c[1], num_of_zero |-> c[2],
       p_pole |-> [ok |-> TRUE, val |-> [i \in 1..c[1] |-> F(2)]],
       p_zero |-> [ok |-> TRUE, val |-> [i \in 1..c[2] |-> F(2)]]] :
      c \in { <<np + 1, nz + 1>>,
              <<IF np > 0 THEN np - 1 ELSE 0, IF nz > 0 THEN nz - 1 ELSE 0>> }
             \ {<<np, nz>>} }

\* the caller passes a coefficient struct of the instance's counts or of other
\* counts; a read past the end of one of its arrays traps or produces an
\* indeterminate value
filter_iir_coeff_set ==
    /\ ~crashed /\ calls < MaxCalls
    /\ UNCHANGED OtherThanIir
    /\ calls' = calls + 1
    /\ \E p_coeff_ok \in BOOLEAN :
       \E c \in IF p_coeff_ok
                THEN IirCoeffOfSize(iir.num_of_pole, iir.num_of_zero)
                     \cup IirCoeffOfOtherSize(iir.num_of_pole, iir.num_of_zero)
                ELSE IirCoeffOfOtherSize(1, 1) :
        LET a == [NoArgs EXCEPT !.coeff = IF p_coeff_ok THEN c ELSE <<>>,
                                !.p_ok = p_coeff_ok]
        IN
        IF ~(iir.ptr /\ p_coeff_ok) \/ ~iir.is_init
        THEN /\ iir_call' = Call("iir_coeff_set", eFILTER_ERROR, a, iir, F(0), FALSE)
             /\ UNCHANGED <<iir, crashed>>
        ELSE \/ /\ ~IirCoeffSetMemOk(iir) \/ IirCoeffSetShort(iir, c)
                /\ iir_call' = Call("iir_coeff_set", TRAP, a, iir, F(0), FALSE)
                /\ crashed' = TRUE
                /\ UNCHANGED iir
             \/ /\ IirCoeffSetMemOk(iir)
                /\ \E g \in Indeterminate :
                     /\ ~IirCoeffSetShort(iir, c) => g = F(0)
                     /\ iir' = iir_coeff_set_inst(iir, c, g)
                /\ iir_call' = Call("iir_coeff_set", eFILTER_OK, a, iir, F(0), FALSE)
                /\ UNCHANGED crashed

\* *pp_coeff is made to point at the instance's own coeff struct; the call
\* record's coeff is what that pointer reads
filter_iir_coeff_get ==
    /\ ~crashed /\ calls < MaxCalls
    /\ UNCHANGED OtherThanIir
    /\ calls' = calls + 1
    /\ UNCHANGED <<iir, crashed>>
    /\ \E p_ok \in BOOLEAN :
        LET a == [NoArgs EXCEPT !.p_ok = p_ok]
        IN
        IF ~(iir.ptr /\ p_ok) \/ ~iir.is_init
        THEN iir_call' = Call("iir_coeff_get", eFILTER_ERROR, a, iir, F(0), FALSE)
        ELSE iir_call' = Call("iir_coeff_get", eFILTER_OK,
                              [a EXCEPT !.coeff =
                                 [num_of_pole |-> iir.num_of_pole,
                                  num_of_zero |-> iir.num_of_zero,
                                  p_pole |-> [ok |-> iir.p_pole_ok, val |-> iir.p_pole],
                                  p_zero |-> [ok |-> iir.p_zero_ok, val |-> iir.p_zero]]],
                              iir, F(0), TRUE)
(***************************************************************************)
(* Biquad coefficient synthesis.                                           *)
(***************************************************************************)
\* pi as the double constant of math.h; the rational 22/7 stands for it, as
\* 44/7 does for FILTER_TWOPI
M_PI == <<22, 7>>

\* x as a number of quarter turns (multiples of pi/2)
QuarterTurns(x) == Div(x, Div(M_PI, F(2)))

\* cosf and sinf at the whole numbers of quarter turns, the only angles the
\* calls made here produce, and at the values that are no numbers
cosf(x) ==
    IF ~IsFinite(x) THEN NAN
    ELSE LET q == QuarterTurns(x)
             k == ((q[1] % 4) + 4) % 4
         IN  CASE q[2] = 1 /\ k = 0 -> F(1)
               [] q[2] = 1 /\ k = 1 -> F(0)
               [] q[2] = 1 /\ k = 2 -> F(-1)
               [] q[2] = 1 /\ k = 3 -> F(0)

sinf(x) ==
    IF ~IsFinite(x) THEN NAN
    ELSE LET q == QuarterTurns(x)
             k == ((q[1] % 4) + 4) % 4
         IN  CASE q[2] = 1 /\ k = 0 -> F(0)
               [] q[2] = 1 /\ k = 1 -> F(1)
               [] q[2] = 1 /\ k = 2 -> F(0)
               [] q[2] = 1 /\ k = 3 -> F(-1)

\* the arguments of the synthesis functions: cutoffs at whole numbers of
\* quarter turns of a sample rate of 44, damping factors, notch bandwidths
SynthCutoffs == {F(-11), F(0), F(11), F(22), F(33)}
SynthRates   == {F(44), F(0)}
Dampings     == {<<1, 2>>, F(1)}
Bandwidths   == {F(0), <<1, 2>>, F(1), F(2), NAN}

\* an output array argument: a null pointer, or three floats holding what the
\* caller's memory held
SynthArrays ==
    {[ok |-> FALSE, val |-> <<>>]}
    \cup {[ok |-> TRUE, val |-> <<g, g, g>>] : g \in Indeterminate}

\* what a synthesis function returns and leaves in the two arrays when it
\* writes nothing
SynthError(p_pole, p_zero) ==
    [status |-> eFILTER_ERROR, pole |-> p_pole.val, zero |-> p_zero.val]

\* a low-pass synthesis that accepts a cutoff of fs/2
iir_coeff_calc_2nd_lpf_leq(fc, zeta, fs, p_pole, p_zero) ==
    IF p_pole.ok /\ p_zero.ok /\ ~Gt(fc, Div(fs, F(2))) /\ IsFinite(Div(fc, fs))
    THEN [status |-> eFILTER_OK, pole |-> <<F(1), F(0), F(1)>>,
          zero |-> <<F(1), F(0), F(1)>>]
    ELSE SynthError(p_pole, p_zero)

iir_coeff_calc_2nd_lpf(fc, zeta, fs, p_pole, p_zero) ==
    IF p_pole.ok /\ p_zero.ok
    THEN IF Lt(fc, Div(fs, F(2)))
         THEN LET omega     == Mul(F(2), Mul(M_PI, Div(fc, fs)))
                  alpha     == Mul(sinf(omega), zeta)
                  cos_omega == cosf(omega)
              IN  [status |-> eFILTER_OK,
                   zero |-> << Div(Sub(F(1), cos_omega), F(2)),
                               Sub(F(1), cos_omega),
                               Div(Sub(F(1), cos_omega), F(2)) >>,
                   pole |-> << Add(F(1), alpha),
                               Mul(F(-2), cos_omega),
                               Sub(F(1), alpha) >>]
         ELSE SynthError(p_pole, p_zero)
    ELSE SynthError(p_pole, p_zero)

iir_coeff_calc_2nd_hpf(fc, zeta, fs, p_pole, p_zero) ==
    IF p_pole.ok /\ p_zero.ok
    THEN IF Lt(fc, Div(fs, F(2)))
         THEN LET omega     == Mul(F(2), Mul(M_PI, Div(fc, fs)))
                  alpha     == Mul(sinf(omega), zeta)
                  cos_omega == cosf(omega)
              IN  [status |-> eFILTER_OK,
                   zero |-> << Div(Add(F(1), cos_omega), F(2)),
                               Neg(Add(F(1), cos_omega)),
                               Div(Add(F(1), cos_omega), F(2)) >>,
                   pole |-> << Add(F(1), alpha),
                               Mul(F(-2), cos_omega),
                               Sub(F(1), alpha) >>]
         ELSE SynthError(p_pole, p_zero)
    ELSE SynthError(p_pole, p_zero)

\* the notch (band stop) synthesis
iir_coeff_calc_2nd_bpf(fc, r, fs, p_pole, p_zero) ==
    IF p_pole.ok /\ p_zero.ok /\ (Gt(r, F(0)) /\ Lt(r, F(1)))
    THEN IF Lt(fc, Div(fs, F(2)))
         THEN LET omega     == Mul(F(2), Mul(M_PI, Div(fc, fs)))
                  cos_omega == cosf(omega)
              IN  [status |-> eFILTER_OK,
                   zero |-> << F(1), Mul(F(-2), cos_omega), F(1) >>,
                   pole |-> << F(1), Mul(F(-2), Mul(r, cos_omega)), Mul(r, r) >>]
         ELSE SynthError(p_pole, p_zero)
    ELSE SynthError(p_pole, p_zero)

\* the record of a synthesis call: its arguments (shape is zeta or r; p_pole
\* and p_zero as they were before the call) and its results
SynthCall(op, fc, shape, fs, p_pole, p_zero, r) ==
    [op |-> op, status |-> r.status, fc |-> fc, shape |-> shape, fs |-> fs,
     p_pole |-> p_pole, p_zero |-> p_zero, pole |-> r.pole, zero |-> r.zero]

filter_iir_coeff_calc_2nd_lpf ==
    /\ UNCHANGED OtherThanSynth
    /\ \E fc \in SynthCutoffs, zeta \in Dampings, fs \in SynthRates,
          p_pole \in SynthArrays, p_zero \in SynthArrays :
        synth' = SynthCall("lpf", fc, zeta, fs, p_pole, p_zero,
                           iir_coeff_calc_2nd_lpf(fc, zeta, fs, p_pole, p_zero))

filter_iir_coeff_calc_2nd_hpf ==
    /\ UNCHANGED OtherThanSynth
    /\ \E fc \in SynthCutoffs, zeta \in Dampings, fs \in SynthRates,
          p_pole \in SynthArrays, p_zero \in SynthArrays :
        synth' = SynthCall("hpf", fc, zeta, fs, p_pole, p_zero,
                           iir_coeff_calc_2nd_hpf(fc, zeta, fs, p_pole, p_zero))

filter_iir_coeff_calc_2nd_bpf ==
    /\ UNCHANGED OtherThanSynth
    /\ \E fc \in SynthCutoffs, r \in Bandwidths, fs \in SynthRates,
          p_pole \in SynthArrays, p_zero \in SynthArrays :
        synth' = SynthCall("bpf", fc, r, fs, p_pole, p_zero,
                           iir_coeff_calc_2nd_bpf(fc, r, fs, p_pole, p_zero))

(***************************************************************************)
(* Gain of a coefficient set and normalization to unity gain.              *)
(***************************************************************************)
\* a != b as C evaluates it: true whenever an operand is not-a-number
FNe(a, b) == ~FEq(a, b)

\* sum of p_pole[i] (0-based, as in the code) for i from i to n - 1
RECURSIVE lpf_sum_loop(_, _, _, _)
lpf_sum_loop(p, n, sum, i) ==
    IF i >= n THEN sum ELSE lpf_sum_loop(p, n, Add(sum, p[i + 1]), i + 1)

\* a sum that adds the items at odd i and subtracts those at even i
RECURSIVE hpf_sum_loop_swapped(_, _, _, _)
hpf_sum_loop_swapped(p, n, sum, i) ==
    IF i >= n THEN sum
    ELSE hpf_sum_loop_swapped(p, n,
             IF i % 2 = 1 THEN Add(sum, p[i + 1]) ELSE Sub(sum, p[i + 1]), i + 1)

\* the loops of filter_iir_calc_hpf_gain: the item at an odd i (i & 0x01U) is
\* subtracted, the item at an even i added
RECURSIVE hpf_sum_loop(_, _, _, _)
hpf_sum_loop(p, n, sum, i) ==
    IF i >= n THEN sum
    ELSE hpf_sum_loop(p, n,
             IF i % 2 = 1 THEN Sub(sum, p[i + 1]) ELSE Add(sum, p[i + 1]), i + 1)

\* a gain that skips the test of pole_sum
calc_gain_unchecked(pole0, pole_sum, zero_sum) ==
    IF FNe(pole0, F(0))
    THEN Div(Div(zero_sum, Add(Div(pole_sum, pole0), F(1))), pole0)
    ELSE NAN

\* the last step of both gain functions; dc_gain starts as NAN
calc_gain(pole0, pole_sum, zero_sum) ==
    IF FNe(pole0, F(0))
    THEN LET pole_sum_1 == Add(Div(pole_sum, pole0), F(1))
         IN  IF FNe(pole_sum_1, F(0))
             THEN Div(Div(zero_sum, pole_sum_1), pole0)
             ELSE NAN
    ELSE NAN

\* c is the struct p_coeff points at, p_ok: p_coeff is not null
iir_calc_lpf_gain(p_ok, c) ==
    IF ~p_ok THEN NAN
    ELSE calc_gain(c.p_pole.val[1],
                   lpf_sum_loop(c.p_pole.val, c.num_of_pole, F(0), 1),
                   lpf_sum_loop(c.p_zero.val, c.num_of_zero, F(0), 0))

iir_calc_hpf_gain(p_ok, c) ==
    IF ~p_ok THEN NAN
    ELSE calc_gain(c.p_pole.val[1],
                   hpf_sum_loop(c.p_pole.val, c.num_of_pole, F(0), 1),
                   hpf_sum_loop(c.p_zero.val, c.num_of_zero, F(0), 0))

\* a normalization that also divides for a negative gain
coeff_to_unity_gain_signed(c, dc_gain) ==
    IF FNe(dc_gain, F(0)) /\ ~IsNaN(dc_gain)
    THEN [c EXCEPT !.p_zero.val = [i \in DOMAIN c.p_zero.val |->
                                     Div(c.p_zero.val[i], dc_gain)]]
    ELSE c

\* a normalization that multiplies by the gain
coeff_to_unity_gain_mul(c, dc_gain) ==
    IF Gt(dc_gain, F(0))
    THEN [c EXCEPT !.p_zero.val = [i \in DOMAIN c.p_zero.val |->
                                     Mul(c.p_zero.val[i], dc_gain)]]
    ELSE c

\* the struct after the normalization loop of both to_unity_gain functions
coeff_to_unity_gain(c, dc_gain) ==
    IF Gt(dc_gain, F(0))
    THEN [c EXCEPT !.p_zero.val = [i \in DOMAIN c.p_zero.val |->
                                     IF i <= c.num_of_zero
                                     THEN Div(c.p_zero.val[i], dc_gain)
                                     ELSE c.p_zero.val[i]]]
    ELSE c

\* a filter_iir_coeff_t over two arrays
CoeffStruct(pole, zero) ==
    [num_of_pole |-> Len(pole), num_of_zero |-> Len(zero),
     p_pole |-> [ok |-> TRUE, val |-> pole], p_zero |-> [ok |-> TRUE, val |-> zero]]

\* the pole arrays and the zero arrays the callers pass
GainPoles  == { <<F(0), F(1), F(1)>>, <<F(1), F(-1), F(0)>>, <<F(1), F(1), F(0)>>,
                <<F(2), F(1), F(-1)>>, <<F(1), F(0), F(1)>>, <<F(2), F(-1), F(-1)>>,
                <<F(-1), F(1), F(2)>>, <<F(1), F(2), F(1)>> }
GainZeros  == { <<F(0), F(0), F(0)>>, <<F(1), F(1), F(1)>>, <<F(1), F(2), F(4)>>,
                <<F(-1), F(2), F(1)>>, <<F(1), F(-2), F(1)>>, <<F(-2), F(-1), F(0)>> }

\* the arrays a synthesis call is given to write a biquad into
GainArray == [ok |-> TRUE, val |-> <<F(0), F(0), F(0)>>]

\* the coefficient sets the callers pass: one to three poles and as many
\* zeros, the two biquads synthesized at a quarter of the sample rate, the
\* biquad the low-pass synthesis returns for a sample rate of 0, and the
\* high-pass biquad for a cutoff of 0
GainCoeffs ==
    UNION { { CoeffStruct(p, SubSeq(z, 1, n)) :
                p \in { SubSeq(q, 1, n) : q \in GainPoles }, z \in GainZeros } : n \in 1..3 }
    \cup { CoeffStruct(r.pole, r.zero) :
             r \in { iir_coeff_calc_2nd_lpf(F(11), <<1, 2>>, F(44), GainArray, GainArray),
                     iir_coeff_calc_2nd_hpf(F(11), <<1, 2>>, F(44), GainArray, GainArray),
                     iir_coeff_calc_2nd_lpf(F(-11), <<1, 2>>, F(0), GainArray, GainArray),
                     iir_coeff_calc_2nd_hpf(F(0), <<1, 2>>, F(44), GainArray, GainArray) } }

\* the record of a gain or normalization call: p_ok (p_coeff is not null),
\* the struct before the call, the gain computed, the struct after the call,
\* and the normalization that left the struct the caller passed ("none" for
\* a struct no normalization has written)
GainCall(op, status, p_ok, c, gain, after, chained) ==
    [op |-> op, status |-> status, p_ok |-> p_ok, coeff |-> c, gain |-> gain,
     after |-> after, chained |-> chained]

GainOps == {"lpf_gain", "hpf_gain", "to_unity_gain_lpf", "to_unity_gain_hpf"}

\* the structs a call is made with: a fresh one, or the one the last
\* normalization left
GainArgs ==
    [chained : {"none"}, c : GainCoeffs]
    \cup (IF synth.op \in {"to_unity_gain_lpf", "to_unity_gain_hpf"} /\ synth.p_ok
          THEN {[chained |-> synth.op, c |-> synth.after]} ELSE {})

filter_iir_calc_lpf_gain ==
    /\ UNCHANGED OtherThanSynth
    /\ \E p_ok \in BOOLEAN : \E a \in IF p_ok THEN GainArgs ELSE {CHOOSE x \in GainArgs : TRUE} :
        synth' = GainCall("lpf_gain", "none", p_ok, a.c, iir_calc_lpf_gain(p_ok, a.c),
                          a.c, IF p_ok THEN a.chained ELSE "none")

filter_iir_calc_hpf_gain ==
    /\ UNCHANGED OtherThanSynth
    /\ \E p_ok \in BOOLEAN : \E a \in IF p_ok THEN GainArgs ELSE {CHOOSE x \in GainArgs : TRUE} :
        synth' = GainCall("hpf_gain", "none", p_ok, a.c, iir_calc_hpf_gain(p_ok, a.c),
                          a.c, IF p_ok THEN a.chained ELSE "none")

filter_iir_coeff_to_unity_gain_lpf ==
    /\ UNCHANGED OtherThanSynth
    /\ \E p_ok \in BOOLEAN : \E a \in IF p_ok THEN GainArgs ELSE {CHOOSE x \in GainArgs : TRUE} :
        IF p_ok
        THEN LET dc_gain == iir_calc_lpf_gain(p_ok, a.c)
             IN  synth' = GainCall("to_unity_gain_lpf", eFILTER_OK, p_ok, a.c, dc_gain,
                                   coeff_to_unity_gain(a.c, dc_gain), a.chained)
        ELSE synth' = GainCall("to_unity_gain_lpf", eFILTER_ERROR, p_ok, a.c, NAN,
                               a.c, "none")

filter_iir_coeff_to_unity_gain_hpf ==
    /\ UNCHANGED OtherThanSynth
    /\ \E p_ok \in BOOLEAN : \E a \in IF p_ok THEN GainArgs ELSE {CHOOSE x \in GainArgs : TRUE} :
        IF p_ok
        THEN LET dc_gain == iir_calc_hpf_gain(p_ok, a.c)
             IN  synth' = GainCall("to_unity_gain_hpf", eFILTER_OK, p_ok, a.c, dc_gain,
                                   coeff_to_unity_gain(a.c, dc_gain), a.chained)
        ELSE synth' = GainCall("to_unity_gain_hpf", eFILTER_ERROR, p_ok, a.c, NAN,
                               a.c, "none")

(***************************************************************************)
(* Boolean (debounce) filter: an RC filter of order 1 and a comparator.    *)
(***************************************************************************)
\* filter_bool_t behind the caller's handle.  ptr: the handle is non-null;
\* lpf_ok: the lpf member holds what filter_rc_init stored there (a null
\* pointer included) and not what malloc left; lpf: the filter_rc_t it
\* points to; ctor: status of the constructor call (bookkeeping).
BoolNull ==
    [ptr |-> FALSE, ctor |-> "none", is_init |-> FALSE, comp_lvl |-> F(0),
     y |-> FALSE, lpf_ok |-> FALSE, lpf |-> RcNull]

\* the cutoffs and the comparator levels the callers pass; the sample rate
\* is 44, which makes alpha 1/2 for fc = 7, 3/4 for fc = 21 and 2 for fc = -14
BoolCutoffs == {F(-14), F(7), F(21), F(22)}
CompLevels  == {F(0), <<1, 8>>, <<1, 4>>, <<2, 5>>}

\* a boolean filter call record: the input, whether p_out was non-null, the
\* instance before the call, the status, what filter_rc_hndl left in
\* filt_out and what the call left in *p_out (out0 before)
BoolCall(op, status, in, p_ok, pre, filt_out, out) ==
    [op |-> op, status |-> status, in |-> in, p_ok |-> p_ok, pre |-> pre,
     filt_out |-> filt_out, out |-> out]

\* a comparator with one trip level for both directions
bool_comparator_low(y, filt_out, comp_lvl) ==
    IF ~y /\ (Gt(filt_out, comp_lvl) \/ FEq(filt_out, comp_lvl)) THEN TRUE
    ELSE IF y /\ (Lt(filt_out, comp_lvl) \/ FEq(filt_out, comp_lvl)) THEN FALSE
    ELSE y

\* filter_inst->y after the comparator of filter_bool_hndl
bool_comparator(y, filt_out, comp_lvl) ==
    IF ~y /\ (Gt(filt_out, Sub(F(1), comp_lvl)) \/ FEq(filt_out, Sub(F(1), comp_lvl)))
    THEN TRUE
    ELSE IF y /\ (Lt(filt_out, comp_lvl) \/ FEq(filt_out, comp_lvl))
    THEN FALSE
    ELSE y

\* filter_rc_hndl( filter_inst->lpf, filt_in, &filt_out ) with filt_out = 0
\* before the call: whether it traps, the instance and filt_out afterwards
bool_lpf_hndl(lpf, filt_in) ==
    IF ~lpf.ptr \/ ~lpf.is_init
    THEN [trap |-> FALSE, lpf |-> lpf, filt_out |-> F(0)]
    ELSE IF ~RcHndlMemOk(lpf)
    THEN [trap |-> TRUE, lpf |-> lpf, filt_out |-> F(0)]
    ELSE LET y == filter_rc_hndl_y(lpf, filt_in)
         IN  [trap |-> FALSE, lpf |-> [lpf EXCEPT !.p_y = y], filt_out |-> y[lpf.order]]

\* the caller constructs into a handle that is still null.  The test after
\* malloc looks at p_filter_inst, not at *p_filter_inst, so a failed
\* allocation is passed on to filter_rc_init as &(*p_filter_inst)->lpf.
filter_bool_init ==
    /\ ~crashed /\ calls < MaxCalls
    /\ UNCHANGED OtherThanBool
    /\ ~bf.ptr
    /\ calls' = calls + 1
    /\ \E fc \in BoolCutoffs, comp_lvl \in CompLevels, p_inst_ok \in BOOLEAN :
        LET fs    == F(44)
            valid == Gt(comp_lvl, F(0)) /\ Lt(comp_lvl, <<2, 5>>)
            done(status, inst, trap) ==
                /\ bf' = inst
                /\ bf_call' = BoolCall("bool_init", status, FALSE, p_inst_ok, bf, F(0), FALSE)
                /\ crashed' = trap
        IN
        IF ~p_inst_ok THEN done(eFILTER_ERROR, bf, FALSE)
        ELSE \E m_inst \in BOOLEAN :
            IF ~m_inst
            THEN IF ~valid THEN done(eFILTER_ERROR, BoolNull, FALSE)
                 ELSE \E trap \in BOOLEAN :
                        done(IF trap THEN TRAP ELSE eFILTER_ERROR, BoolNull, trap)
            ELSE \E is_init \in BOOLEAN, y \in BOOLEAN, lvl \in Indeterminate :
                LET g == [ptr |-> TRUE, ctor |-> eFILTER_ERROR, is_init |-> is_init,
                          comp_lvl |-> lvl, y |-> y, lpf_ok |-> FALSE, lpf |-> RcNull]
                IN
                IF ~valid THEN done(eFILTER_ERROR, g, FALSE)
                ELSE \E m_rc \in BOOLEAN :
                    IF ~m_rc
                    THEN \E trap \in BOOLEAN :
                            done(IF trap THEN TRAP ELSE eFILTER_ERROR,
                                 [g EXCEPT !.lpf_ok = TRUE], trap)
                    ELSE \E m_y \in BOOLEAN, grc \in IndeterminateRc :
                        IF ~m_y
                        THEN done(eFILTER_ERROR,
                                  [g EXCEPT !.lpf_ok = TRUE, !.lpf = rc_init_no_array(grc)],
                                  FALSE)
                        ELSE \E gy \in IndeterminateArray(1, grc.is_init) :
                            LET lpf == rc_init_allocated(fc, fs, 1, F(0), grc, gy)
                            IN  IF lpf.ctor = eFILTER_OK
                                THEN done(eFILTER_OK,
                                          [g EXCEPT !.lpf_ok = TRUE, !.lpf = lpf,
                                                    !.ctor = eFILTER_OK,
                                                    !.comp_lvl = comp_lvl, !.y = FALSE,
                                                    !.is_init = TRUE],
                                          FALSE)
                                ELSE done(lpf.ctor,
                                          [g EXCEPT !.lpf_ok = TRUE, !.lpf = lpf], FALSE)

\* out is what *p_is_init holds afterwards
filter_bool_is_init ==
    /\ ~crashed /\ calls < MaxCalls
    /\ UNCHANGED OtherThanBool
    /\ calls' = calls + 1
    /\ UNCHANGED <<bf, crashed>>
    /\ \E p_ok \in BOOLEAN :
        IF bf.ptr /\ p_ok
        THEN bf_call' = BoolCall("bool_is_init", eFILTER_OK, FALSE, p_ok, bf, F(0), bf.is_init)
        ELSE bf_call' = BoolCall("bool_is_init", eFILTER_ERROR, FALSE, p_ok, bf, F(0), FALSE)

\* is_init is not looked at; an lpf member that was never written is an
\* indeterminate pointer: the call traps or filter_rc_hndl leaves some value
\* in filt_out
filter_bool_hndl ==
    /\ ~crashed /\ calls < MaxCalls
    /\ UNCHANGED OtherThanBool
    /\ calls' = calls + 1
    /\ \E in \in BOOLEAN, p_ok \in BOOLEAN, out0 \in BOOLEAN :
        LET filt_in == IF in THEN F(1) ELSE F(0)
            done(r) ==
                IF r.trap
                THEN /\ bf_call' = BoolCall("bool_hndl", TRAP, in, p_ok, bf, r.filt_out, out0)
                     /\ crashed' = TRUE
                     /\ UNCHANGED bf
                ELSE LET y == bool_comparator(bf.y, r.filt_out, bf.comp_lvl)
                     IN  /\ bf' = [bf EXCEPT !.lpf = r.lpf, !.y = y]
                         /\ bf_call' = BoolCall("bool_hndl", eFILTER_OK, in, p_ok, bf,
                                                r.filt_out, y)
                         /\ UNCHANGED crashed
        IN
        IF ~(bf.ptr /\ p_ok)
        THEN /\ bf_call' = BoolCall("bool_hndl", eFILTER_ERROR, in, p_ok, bf, F(0), out0)
             /\ UNCHANGED <<bf, crashed>>
        ELSE IF ~bf.lpf_ok
        THEN \E trap \in BOOLEAN, garbage \in Indeterminate :
                done([trap |-> trap, lpf |-> bf.lpf, filt_out |-> garbage])
        ELSE done(bool_lpf_hndl(bf.lpf, filt_in))

\* filter_rc_reset( filter_inst->lpf, 0.0f ), its status ignored, then y
filter_bool_reset ==
    /\ ~crashed /\ calls < MaxCalls
    /\ UNCHANGED OtherThanBool
    /\ calls' = calls + 1
    /\ IF ~bf.ptr \/ ~bf.is_init
       THEN /\ bf_call' = BoolCall("bool_reset", eFILTER_ERROR, FALSE, TRUE, bf, F(0), FALSE)
            /\ UNCHANGED <<bf, crashed>>
       ELSE \E trap \in IF bf.lpf_ok THEN {bf.lpf.ptr /\ bf.lpf.is_init /\ ~RcResetMemOk(bf.lpf)}
                        ELSE BOOLEAN :
            IF trap
            THEN /\ bf_call' = BoolCall("bool_reset", TRAP, FALSE, TRUE, bf, F(0), FALSE)
                 /\ crashed' = TRUE
                 /\ UNCHANGED bf
            ELSE /\ bf' = [bf EXCEPT !.y = FALSE,
                                     !.lpf = IF bf.lpf_ok /\ bf.lpf.ptr /\ bf.lpf.is_init
                                             THEN rc_reset_inst(bf.lpf, F(0))
                                             ELSE bf.lpf]
                 /\ bf_call' = BoolCall("bool_reset", eFILTER_OK, FALSE, TRUE, bf, F(0), FALSE)
                 /\ UNCHANGED crashed

\* the set_cutoff of the boolean filter (filter_boot_fc_set in the source):
\* the status is that of filter_rc_fc_set on the lpf member
filter_boot_fc_set ==
    /\ ~crashed /\ calls < MaxCalls
    /\ UNCHANGED OtherThanBool
    /\ calls' = calls + 1
    /\ \E fc \in BoolCutoffs :
        IF ~bf.ptr \/ ~bf.is_init
        THEN /\ bf_call' = BoolCall("bool_fc_set", eFILTER_ERROR, FALSE, TRUE, bf, F(0), FALSE)
             /\ UNCHANGED <<bf, crashed>>
        ELSE IF ~bf.lpf_ok
        THEN \E trap \in BOOLEAN :
                /\ bf_call' = BoolCall("bool_fc_set", IF trap THEN TRAP ELSE eFILTER_ERROR,
                                       FALSE, TRUE, bf, F(0), FALSE)
                /\ crashed' = trap
                /\ UNCHANGED bf
        ELSE IF ~bf.lpf.ptr \/ ~bf.lpf.is_init
        THEN /\ bf_call' = BoolCall("bool_fc_set", eFILTER_ERROR, FALSE, TRUE, bf, F(0), FALSE)
             /\ UNCHANGED <<bf, crashed>>
        ELSE LET r == rc_fc_set_inst(bf.lpf, fc)
             IN  /\ bf' = [bf EXCEPT !.lpf = r.inst]
                 /\ bf_call' = BoolCall("bool_fc_set", r.status, FALSE, TRUE, bf, F(0), FALSE)
                 /\ UNCHANGED crashed

(***************************************************************************)
(* Specifications: one per filter kind, each driving one handle.           *)
(***************************************************************************)
NoCall(null) == Call("none", eFILTER_OK, NoArgs, null, F(0), FALSE)

Init ==
    /\ rc = RcNull
    /\ rc_call = NoCall(RcNull)
    /\ cr = CrNull
    /\ cr_call = NoCall(CrNull)
    /\ fir = FirNull
    /\ fir_call = NoCall(FirNull)
    /\ iir = IirNull
    /\ iir_call = NoCall(IirNull)
    /\ synth = SynthCall("none", F(0), F(0), F(0), [ok |-> FALSE, val |-> <<>>],
                         [ok |-> FALSE, val |-> <<>>],
                         [status |-> eFILTER_OK, pole |-> <<>>, zero |-> <<>>])
    /\ bf = BoolNull
    /\ bf_call = BoolCall("none", eFILTER_OK, FALSE, FALSE, BoolNull, F(0), FALSE)
    /\ calls = 0
    /\ crashed = FALSE

NextRC ==
    \/ filter_rc_init
    \/ filter_rc_is_init
    \/ filter_rc_hndl
    \/ filter_rc_reset
    \/ filter_rc_fc_set
    \/ filter_rc_fc_get
    \/ filter_rc_fs_get

SpecRC == Init /\ [][NextRC]_vars

NextCR ==
    \/ filter_cr_init
    \/ filter_cr_is_init
    \/ filter_cr_hndl
    \/ filter_cr_reset
    \/ filter_cr_fc_set
    \/ filter_cr_fc_get
    \/ filter_cr_fs_get

SpecCR == Init /\ [][NextCR]_vars

\* the caller drives one handle, of an RC filter or of a CR filter
NextRcCr ==
    \/ cr_call.op = "none" /\ NextRC
    \/ rc_call.op = "none" /\ NextCR

SpecRcCr == Init /\ [][NextRcCr]_vars


NextFIR ==
    \/ filter_fir_init
    \/ filter_fir_is_init
    \/ filter_fir_hndl
    \/ filter_fir_reset
    \/ filter_fir_coeff_set
    \/ filter_fir_coeff_get

SpecFIR == Init /\ [][NextFIR]_vars

NextIIR ==
    \/ filter_iir_init
    \/ filter_iir_is_init
    \/ filter_iir_hndl
    \/ filter_iir_reset
    \/ filter_iir_coeff_set
    \/ filter_iir_coeff_get

SpecIIR == Init /\ [][NextIIR]_vars

\* the caller computes biquad coefficients
NextSynth ==
    \/ filter_iir_coeff_calc_2nd_lpf
    \/ filter_iir_coeff_calc_2nd_hpf
    \/ filter_iir_coeff_calc_2nd_bpf

SpecSynth == Init /\ [][NextSynth]_vars

NextBool ==
    \/ filter_bool_init
    \/ filter_bool_is_init
    \/ filter_bool_hndl
    \/ filter_bool_reset
    \/ filter_boot_fc_set

SpecBool == Init /\ [][NextBool]_vars

\* the caller computes gains of coefficient sets and normalizes them
NextGain ==
    \/ filter_iir_calc_lpf_gain
    \/ filter_iir_calc_hpf_gain
    \/ filter_iir_coeff_to_unity_gain_lpf
    \/ filter_iir_coeff_to_unity_gain_hpf

SpecGain == Init /\ [][NextGain]_vars

\* the caller drives one handle, of a FIR filter or of an IIR filter
NextFirIir ==
    \/ iir_call.op = "none" /\ NextFIR
    \/ fir_call.op = "none" /\ NextIIR

SpecFirIir == Init /\ [][NextFirIir]_vars

\* the caller drives one handle, of a filter of any of the four kinds
NextFilters ==
    \/ cr_call.op = "none" /\ fir_call.op = "none" /\ iir_call.op = "none" /\ NextRC
    \/ rc_call.op = "none" /\ fir_call.op = "none" /\ iir_call.op = "none" /\ NextCR
    \/ rc_call.op = "none" /\ cr_call.op = "none" /\ iir_call.op = "none" /\ NextFIR
    \/ rc_call.op = "none" /\ cr_call.op = "none" /\ fir_call.op = "none" /\ NextIIR

SpecFilters == Init /\ [][NextFilters]_vars
(***************************************************************************)
(* Properties of the RC filter, checked under SpecRC.                      *)
(***************************************************************************)
RcUpdated ==
    /\ rc_call.op = "rc_hndl"
    /\ rc_call.status = eFILTER_OK
    /\ rc_call.pre.is_init

\* C3: one update of an initialized RC instance of order N sets stage 0 to
\* y0 + alpha*(input - y0), then each stage n = 1..N-1 in ascending order to
\* yn + alpha*(y_{n-1} - yn) with y_{n-1} the value stage n-1 got in this same
\* call, and returns the value of stage N-1.  (Stage n is p_y[n+1] here.)
C3_RcUpdate ==
    RcUpdated =>
        LET pre   == rc_call.pre
            alpha == pre.alpha
        IN  /\ rc.p_y[1] = Add(pre.p_y[1], Mul(alpha, Sub(rc_call.in, pre.p_y[1])))
            /\ \A n \in 2..pre.order :
                 rc.p_y[n] = Add(pre.p_y[n], Mul(alpha, Sub(rc.p_y[n-1], pre.p_y[n])))
            /\ rc_call.out = rc.p_y[pre.order]

\* an update of a constructed order-2 instance in which both stages moved,
\* to different values, and the first stage's old and new values differ
C3_Witness ==
    /\ RcUpdated
    /\ rc_call.pre.ctor = eFILTER_OK
    /\ rc_call.pre.order = 2
    /\ rc.p_y[1] # rc_call.pre.p_y[1]
    /\ rc.p_y[2] # rc_call.pre.p_y[2]
    /\ rc.p_y[1] # rc.p_y[2]

\* C5: every operation other than the init-status query, invoked on an
\* instance whose is_init flag is false, returns an error status and leaves
\* the instance unchanged (stated for the RC filter's operations).
C5_UninitRejected ==
    (/\ rc_call.op \in {"rc_hndl", "rc_reset", "rc_fc_set", "rc_fc_get", "rc_fs_get"}
     /\ rc_call.pre.ptr
     /\ ~rc_call.pre.is_init)
        => (rc_call.status = eFILTER_ERROR /\ rc = rc_call.pre)

\* C6: after a constructor call that returned an error, the init-status
\* query on the handle that call wrote never reports true (stated for the
\* RC filter's constructor).
C6_FailedCtorNotInit ==
    (/\ rc_call.op = "rc_is_init"
     /\ rc_call.status = eFILTER_OK
     /\ rc_call.pre.ctor = eFILTER_ERROR)
        => rc_call.flag = FALSE

\* C7: RC construct and RC set_cutoff return an error whenever
\* cutoff >= sample_rate/2, equality included (for set_cutoff the sample rate
\* is the instance's), and a rejected set_cutoff on an initialized instance
\* leaves alpha, cutoff, sample rate, order and every stage value unchanged.
C7_RcNyquist ==
    /\ (/\ rc_call.op = "rc_init"
        /\ rc_call.status # TRAP
        /\ Geq(rc_call.fc, Div(rc_call.fs, F(2))))
            => rc_call.status = eFILTER_ERROR
    /\ (/\ rc_call.op = "rc_fc_set"
        /\ rc_call.pre.is_init
        /\ Geq(rc_call.fc, Div(rc_call.pre.fs, F(2))))
            => rc_call.status = eFILTER_ERROR
    /\ (/\ rc_call.op = "rc_fc_set"
        /\ rc_call.pre.is_init
        /\ rc_call.status = eFILTER_ERROR)
            => /\ rc.alpha = rc_call.pre.alpha
               /\ rc.fc    = rc_call.pre.fc
               /\ rc.fs    = rc_call.pre.fs
               /\ rc.order = rc_call.pre.order
               /\ rc.p_y   = rc_call.pre.p_y

\* a set_cutoff at exactly half the sample rate, rejected, on a constructed
\* instance whose stages an update has moved off their initial value
C7_Witness ==
    /\ rc_call.op = "rc_fc_set"
    /\ rc_call.status = eFILTER_ERROR
    /\ rc_call.pre.ctor = eFILTER_OK
    /\ rc_call.fc = Div(rc_call.pre.fs, F(2))
    /\ rc_call.pre.alpha = <<1, 2>>
    /\ \E n \in 1..rc_call.pre.order : rc_call.pre.p_y[n] \notin {F(0), F(1), F(3)}

(***************************************************************************)
(* Properties of the CR filter, checked under SpecCR.                      *)
(***************************************************************************)
CrUpdated ==
    /\ cr_call.op = "cr_hndl"
    /\ cr_call.status = eFILTER_OK
    /\ cr_call.pre.ptr /\ cr_call.p_ok
    /\ cr_call.pre.is_init

\* C4: one update of an initialized CR instance of order N sets
\* y0 := alpha*(y0 + input - x0) and then x0 := input, and for each stage
\* n = 1..N-1 in ascending order yn := alpha*(yn + y_{n-1} - xn) and then
\* xn := y_{n-1}, with y_{n-1} the value just computed for stage n-1 in the
\* same call; the call returns y_{N-1}.  (Stage n is p_y[n+1], p_x[n+1] here.)
C4_CrUpdate ==
    CrUpdated =>
        LET pre   == cr_call.pre
            alpha == pre.alpha
        IN  /\ cr.p_y[1] = Mul(alpha, Sub(Add(pre.p_y[1], cr_call.in), pre.p_x[1]))
            /\ cr.p_x[1] = cr_call.in
            /\ \A n \in 2..pre.order :
                 /\ cr.p_y[n] = Mul(alpha, Sub(Add(pre.p_y[n], cr.p_y[n-1]), pre.p_x[n]))
                 /\ cr.p_x[n] = cr.p_y[n-1]
            /\ cr_call.out = cr.p_y[pre.order]

\* an update of a constructed order-2 instance whose stages held nonzero
\* previous inputs and outputs, all of which the update changed
C4_Witness ==
    /\ CrUpdated
    /\ cr_call.pre.ctor = eFILTER_OK
    /\ cr_call.pre.order = 2
    /\ \A n \in 1..2 : /\ cr_call.pre.p_y[n] # F(0)
                       /\ cr_call.pre.p_x[n] # F(0)
                       /\ cr.p_y[n] # cr_call.pre.p_y[n]
                       /\ cr.p_x[n] # cr_call.pre.p_x[n]

\* the CR smoothing factor as the specification gives it
CrAlphaOfSpec(fc, fs) ==
    Div(Div(F(1), Mul(FILTER_TWOPI, fc)),
        Add(Div(F(1), fs), Div(F(1), Mul(FILTER_TWOPI, fc))))

\* C8: CR construct returns an error and produces no initialized instance
\* whenever cutoff >= sample_rate/2, cutoff <= 0 or sample_rate <= 0; it
\* succeeds only when 0 < cutoff < sample_rate/2, and then
\* alpha = (1/(2*pi*cutoff)) / (1/sample_rate + 1/(2*pi*cutoff)).
C8_CrConstruct ==
    (cr_call.op = "cr_init" /\ cr_call.status # TRAP) =>
        LET fc    == cr_call.fc
            fs    == cr_call.fs
            valid == Gt(fc, F(0)) /\ Lt(fc, Div(fs, F(2)))
        IN  /\ ~valid => (cr_call.status = eFILTER_ERROR /\ ~(cr.ptr /\ cr.is_init))
            /\ cr_call.status = eFILTER_OK =>
                 (valid /\ cr.is_init /\ cr.alpha = CrAlphaOfSpec(fc, fs))

\* the instance was constructed, successfully, with 0 < cutoff < sample_rate/2
CrWellConstructed(inst) ==
    /\ inst.ptr
    /\ inst.is_init
    /\ inst.ctor = eFILTER_OK
    /\ Gt(inst.fc_arg, F(0))
    /\ Lt(inst.fc_arg, Div(inst.fs_arg, F(2)))

\* C9: CR set_cutoff on an initialized instance with a cutoff that violates
\* the Nyquist condition for the sample rate given at construction returns an
\* error and leaves alpha, the stored cutoff and the stage histories unchanged;
\* with a valid cutoff it recomputes alpha from that sample rate.  (Stated for
\* instances whose construction arguments were valid.)
C9_CrSetCutoff ==
    (cr_call.op = "cr_fc_set" /\ CrWellConstructed(cr_call.pre)) =>
        LET fc  == cr_call.fc
            fs  == cr_call.pre.fs_arg
        IN  /\ Geq(fc, Div(fs, F(2))) =>
                 /\ cr_call.status = eFILTER_ERROR
                 /\ cr.alpha = cr_call.pre.alpha
                 /\ cr.fc    = cr_call.pre.fc
                 /\ cr.p_y   = cr_call.pre.p_y
                 /\ cr.p_x   = cr_call.pre.p_x
            /\ (Gt(fc, F(0)) /\ Lt(fc, Div(fs, F(2)))) =>
                 /\ cr_call.status = eFILTER_OK
                 /\ cr.alpha = CrAlphaOfSpec(fc, fs)

(***************************************************************************)
(* FIR and IIR difference equations.                                       *)
(***************************************************************************)
\* the last call was an update of a FIR instance that filter_fir_init
\* constructed successfully
FirUpdated ==
    /\ fir_call.op = "fir_hndl"
    /\ fir_call.status = eFILTER_OK
    /\ fir_call.p_ok
    /\ fir_call.pre.ptr
    /\ fir_call.pre.is_init
    /\ fir_call.pre.ctor = eFILTER_OK

\* the last call was an update of an IIR instance that filter_iir_init
\* constructed successfully
IirUpdated ==
    /\ iir_call.op = "iir_hndl"
    /\ iir_call.status = eFILTER_OK
    /\ iir_call.p_ok
    /\ iir_call.pre.ptr
    /\ iir_call.pre.is_init
    /\ iir_call.pre.ctor = eFILTER_OK

\* sum over i in from..Len(c) of c[i] * s[i]
RECURSIVE SumOfProducts(_, _, _)
SumOfProducts(c, s, from) ==
    IF from > Len(c) THEN F(0)
    ELSE Add(Mul(c[from], s[from]), SumOfProducts(c, s, from + 1))

\* s[k] for 1 <= k <= Len(s), and before for every k before that
Sample(s, k, before) == IF k >= 1 THEN s[k] ELSE before

\* C2: for an initialized FIR instance of order N whose buffer was filled with
\* v, the n-th update's output is the sum over i in 0..N-1 of taps[i]*x[n-i],
\* where x[n] is that update's input and x[k] = v for every k before the first
\* update.
C2_FirConvolution ==
    FirUpdated =>
        LET n == Len(fir.hist)
            x == [i \in 1..fir.order |-> Sample(fir.hist, n - (i - 1), fir.v0)]
        IN  fir_call.out = SumOfProducts(fir.p_a, x, 1)

\* C1: for an initialized IIR instance with pole[0] != 0 whose delay lines
\* were zero-filled, the n-th update's output is (sum over i in
\* 0..zero_count-1 of zero[i]*x[n-i] minus sum over i in 1..pole_count-1 of
\* pole[i]*y[n-i]) / pole[0], with x[k] = y[k] = 0 for every k before the first
\* update, and that output is the newest item of the output delay line.
C1_IirDifferenceEquation ==
    (IirUpdated /\ ~FEq(iir.p_pole[1], F(0))) =>
        LET n == Len(iir.xs)
            x == [i \in 1..iir.num_of_zero |-> Sample(iir.xs, n - (i - 1), F(0))]
            y == [i \in 1..iir.num_of_pole |-> Sample(iir.ys, n - (i - 1), F(0))]
        IN  /\ iir_call.out = Div(Sub(SumOfProducts(iir.p_zero, x, 1),
                                      SumOfProducts(iir.p_pole, y, 2)),
                                  iir.p_pole[1])
            /\ ring_buffer_get_by_index(iir.p_y, F(0), -1) = iir_call.out

\* C10: a FIR filter with taps [1] and order 1 is the identity: every update's
\* output equals that update's input.  (The IIR half of the claim, pole = [1]
\* and zero = [1], is C10_IirIdentity.)
C10_FirIdentity ==
    (FirUpdated /\ fir.order = 1 /\ fir.p_a = <<F(1)>>) =>
        fir_call.out = fir_call.in

\* an IIR filter with pole = [1] and zero = [1] is the identity
C10_IirIdentity ==
    (IirUpdated /\ iir.p_pole = <<F(1)>> /\ iir.p_zero = <<F(1)>>) =>
        iir_call.out = iir_call.in

(***************************************************************************)
(* IIR with a zero leading pole coefficient.                               *)
(***************************************************************************)
\* C11: while pole[0] of a constructed IIR instance is 0, every update returns
\* the not-a-number sentinel whatever the input, the histories and the value
\* the output location held before the call, and that sentinel is the value
\* pushed into the output delay line (its newest item afterwards).
C11_IirZeroPole ==
    (IirUpdated /\ FEq(iir_call.pre.p_pole[1], F(0))) =>
        /\ IsNaN(iir_call.out)
        /\ IsNaN(ring_buffer_get_by_index(iir.p_y, F(0), -1))
        /\ iir.p_y.items = Tail(iir_call.pre.p_y.items) \o <<NAN>>

\* an instance constructed successfully from two pole coefficients, the first
\* of them 0, has handled two nonzero inputs: the second update read the
\* sentinel the first one pushed
C11_Witness ==
    /\ IirUpdated
    /\ iir_call.pre.num_of_pole = 2
    /\ FEq(iir_call.pre.p_pole[1], F(0))
    /\ Len(iir.xs) = 2
    /\ iir_call.in # F(0)
    /\ iir_call.out0 # F(0)
    /\ IsNaN(ring_buffer_get_by_index(iir_call.pre.p_y, F(0), -1))
    /\ IsNaN(iir_call.out)

(***************************************************************************)
(* IIR coefficient replacement.                                            *)
(***************************************************************************)
\* the last call replaced, or tried to replace, the coefficients of an IIR
\* instance that filter_iir_init constructed successfully, and returned
IirCoeffSetCalled ==
    /\ iir_call.op = "iir_coeff_set"
    /\ iir_call.status # TRAP
    /\ iir_call.p_ok
    /\ iir_call.pre.ptr
    /\ iir_call.pre.is_init
    /\ iir_call.pre.ctor = eFILTER_OK

\* C12: IIR coefficient_replace with a coefficient set whose pole count or
\* zero count differs from the instance's returns an error and leaves the
\* stored pole and zero values unchanged; with matching counts it overwrites
\* the coefficient values and nothing else.  (Stated for the calls that read
\* only inside the caller's arrays.)
C12_IirCoeffSetCounts ==
    (IirCoeffSetCalled /\ ~IirCoeffSetShort(iir_call.pre, iir_call.coeff)) =>
        LET pre == iir_call.pre
            c   == iir_call.coeff
        IN  IF c.num_of_pole # pre.num_of_pole \/ c.num_of_zero # pre.num_of_zero
            THEN /\ iir_call.status = eFILTER_ERROR
                 /\ iir.p_pole = pre.p_pole
                 /\ iir.p_zero = pre.p_zero
            ELSE (c.p_pole.ok /\ c.p_zero.ok) =>
                 /\ iir_call.status = eFILTER_OK
                 /\ iir = [pre EXCEPT !.p_pole = c.p_pole.val, !.p_zero = c.p_zero.val]
(***************************************************************************)
(* Reset of the RC and the CR filter, checked under SpecRcCr.              *)
(***************************************************************************)
\* what filter_rc_init with inst's cutoff, sample rate and order and with
\* init_value v leaves behind the handle
RcFresh(inst, v) ==
    rc_init_allocated(inst.fc, inst.fs, inst.order, v, inst, inst.p_y)

\* what filter_cr_init with the cutoff and the sample rate inst was
\* constructed with and with inst's order leaves behind the handle
CrFresh(inst) ==
    cr_init_allocated(inst.fc_arg, inst.fs_arg, inst.order, inst, inst.p_y, inst.p_x)

RcResetDone ==
    /\ rc_call.op = "rc_reset"
    /\ rc_call.status = eFILTER_OK
    /\ rc_call.pre.ctor = eFILTER_OK

CrResetDone ==
    /\ cr_call.op = "cr_reset"
    /\ cr_call.status = eFILTER_OK
    /\ cr_call.pre.ctor = eFILTER_OK

\* C13: after any sequence of operations, a successful RC reset(v) leaves the
\* instance exactly as a fresh construction with the same cutoff, sample rate
\* and order and init_value v leaves it (every stage holds v); a successful CR
\* reset leaves every stage's previous output and previous input at 0, as a
\* fresh construction does, and changes nothing else of the instance.
C13_ResetAsFresh ==
    /\ RcResetDone => rc = RcFresh(rc_call.pre, rc_call.v)
    /\ CrResetDone =>
        /\ cr.p_y = CrFresh(cr_call.pre).p_y
        /\ cr.p_x = CrFresh(cr_call.pre).p_x
        /\ cr = [cr_call.pre EXCEPT !.p_y = cr.p_y, !.p_x = cr.p_x]

\* a CR reset of an order-2 instance whose stages all held non-zero previous
\* outputs and inputs
C13_Witness ==
    /\ CrResetDone
    /\ cr_call.pre.order = 2
    /\ \A i \in 1..2 : cr_call.pre.p_y[i] # F(0) /\ cr_call.pre.p_x[i] # F(0)
    /\ \A i \in 1..2 : cr.p_y[i] = F(0) /\ cr.p_x[i] = F(0)

\* an RC reset of an order-2 instance that changed both stages
C13_RcWitness ==
    /\ RcResetDone
    /\ rc_call.pre.order = 2
    /\ \A i \in 1..2 : rc_call.pre.p_y[i] # rc_call.v /\ rc.p_y[i] = rc_call.v
(***************************************************************************)
(* Reset of the FIR and the IIR filter, checked under SpecFirIir.          *)
(***************************************************************************)
\* what filter_fir_init with inst's coefficients and order and with
\* init_value v leaves behind the handle
FirFresh(inst, v) == fir_init_allocated(inst.p_a, inst.order, v)

\* what filter_iir_init with inst's coefficients leaves behind the handle
IirFresh(inst) ==
    iir_init_allocated([num_of_pole |-> inst.num_of_pole,
                        num_of_zero |-> inst.num_of_zero,
                        p_pole |-> [ok |-> TRUE, val |-> inst.p_pole],
                        p_zero |-> [ok |-> TRUE, val |-> inst.p_zero]])

FirResetDone ==
    /\ fir_call.op = "fir_reset"
    /\ fir_call.status = eFILTER_OK
    /\ fir_call.pre.ctor = eFILTER_OK

IirResetDone ==
    /\ iir_call.op = "iir_reset"
    /\ iir_call.status = eFILTER_OK
    /\ iir_call.pre.ctor = eFILTER_OK

C14_FirWitness ==
    /\ FirResetDone
    /\ fir_call.pre.order = 2
    /\ \A i \in 1..2 : fir_call.pre.p_x.items[i] # fir_call.v /\ fir.p_x.items[i] = fir_call.v
(***************************************************************************)
(* The getters of the RC and the CR filter, checked under SpecRcCr.        *)
(***************************************************************************)
\* the RC instance keeps the sample rate of its construction and the cutoff
\* of the last successful construct or set_cutoff, and the getters read them
C15_RcGetters ==
    LET c == rc_call
    IN  /\ (c.op = "rc_init" /\ c.status = eFILTER_OK) =>
                rc.fc = c.fc /\ rc.fs = c.fs
        /\ (c.pre.ctor = eFILTER_OK /\ c.status # TRAP) =>
                /\ rc.fs = c.pre.fs
                /\ rc.fc = IF c.op = "rc_fc_set" /\ c.status = eFILTER_OK
                           THEN c.fc ELSE c.pre.fc
                /\ (c.op = "rc_fs_get" /\ c.status = eFILTER_OK) => c.out = c.pre.fs
                /\ (c.op = "rc_fc_get" /\ c.status = eFILTER_OK) => c.out = c.pre.fc

\* the same for the cutoff of the CR instance
C15_CrCutoff ==
    LET c == cr_call
    IN  /\ (c.op = "cr_init" /\ c.status = eFILTER_OK) => cr.fc = c.fc
        /\ (c.pre.ctor = eFILTER_OK /\ c.status # TRAP) =>
                /\ cr.fc = IF c.op = "cr_fc_set" /\ c.status = eFILTER_OK
                           THEN c.fc ELSE c.pre.fc
                /\ (c.op = "cr_fc_get" /\ c.status = eFILTER_OK) => c.out = c.pre.fc

\* sample_rate_get of a CR instance returns the sample rate of its construction
C15_CrSampleRate ==
    (cr_call.op = "cr_fs_get" /\ cr_call.status = eFILTER_OK
        /\ CrWellConstructed(cr_call.pre)) =>
            cr_call.out = cr_call.pre.fs_arg

\* C15: for RC and CR instances, after a successful construct(fc, fs, ...),
\* sample_rate_get returns fs after any sequence of later operations, and
\* cutoff_get returns the cutoff of the most recent successful construct or
\* set_cutoff (a rejected set_cutoff does not change it).
C15_Getters == C15_RcGetters /\ C15_CrCutoff /\ C15_CrSampleRate
(***************************************************************************)
(* Update with a null handle or a null output pointer.                     *)
(***************************************************************************)
\* the call c was an update with a null handle or a null output pointer; it
\* returned an error, went through no null pointer and left the instance
\* inst and the output location as they were
NullUpdateRejected(c, op, inst) ==
    (c.op = op /\ (~c.pre.ptr \/ ~c.p_ok)) =>
        /\ c.status = eFILTER_ERROR
        /\ inst = c.pre
        /\ c.out = c.out0

C16_RcNullUpdate  == NullUpdateRejected(rc_call, "rc_hndl", rc)

C16_CrNullUpdate  == NullUpdateRejected(cr_call, "cr_hndl", cr)

C16_FirNullUpdate == NullUpdateRejected(fir_call, "fir_hndl", fir)

C16_IirNullUpdate == NullUpdateRejected(iir_call, "iir_hndl", iir)

\* C16: for every filter kind, update called with a null instance handle or a
\* null output pointer returns an error status and neither reads nor writes
\* through the null pointer.
C16_NullUpdate ==
    /\ C16_RcNullUpdate
    /\ C16_CrNullUpdate
    /\ C16_FirNullUpdate
    /\ C16_IirNullUpdate

\* an IIR update with a null output pointer never goes through it
C16_IirNullOutput ==
    (iir_call.op = "iir_hndl" /\ ~iir_call.p_ok) => iir_call.status # TRAP
(***************************************************************************)
(* Construction with an order of 0 or a null coefficient pointer.          *)
(***************************************************************************)
\* the constructor call c returned an error and left the handle, which the
\* first allocation would have overwritten, as it was
CtorRejected(c, inst) == c.status = eFILTER_ERROR /\ inst = c.pre

C17_RcOrderZero ==
    (rc_call.op = "rc_init" /\ rc_call.order = 0) => CtorRejected(rc_call, rc)

C17_CrOrderZero ==
    (cr_call.op = "cr_init" /\ cr_call.order = 0) => CtorRejected(cr_call, cr)

C17_FirInvalid ==
    (fir_call.op = "fir_init" /\ (fir_call.order = 0 \/ ~fir_call.p_ok)) =>
        CtorRejected(fir_call, fir)

\* p_coeff points at a struct with a count of 0 or a null array pointer
C17_IirInvalidStruct ==
    (iir_call.op = "iir_init" /\ iir_call.p_ok
        /\ (\/ iir_call.coeff.num_of_pole = 0 \/ iir_call.coeff.num_of_zero = 0
            \/ ~iir_call.coeff.p_pole.ok    \/ ~iir_call.coeff.p_zero.ok)) =>
        CtorRejected(iir_call, iir)

\* p_coeff itself is null
C17_IirNullCoeff ==
    (iir_call.op = "iir_init" /\ ~iir_call.p_ok) => CtorRejected(iir_call, iir)

\* C17: constructing any filter with order (or pole_count or zero_count) equal
\* to 0, or with a null coefficient pointer, returns an error, performs no
\* allocation and leaves the caller's handle variable unchanged.
C17_InvalidConstruct ==
    /\ C17_RcOrderZero
    /\ C17_CrOrderZero
    /\ C17_FirInvalid
    /\ C17_IirInvalidStruct
    /\ C17_IirNullCoeff
(***************************************************************************)
(* Construction when an allocation or the coefficient computation fails.   *)
(***************************************************************************)
\* the RC or CR constructor call never goes through a pointer malloc
\* returned as null
C18_NoUnallocatedAccess ==
    /\ rc_call.op = "rc_init" => rc_call.status # TRAP
    /\ cr_call.op = "cr_init" => cr_call.status # TRAP

\* after an RC or CR constructor call that returned an error no block it
\* allocated is left: neither the struct behind the handle nor an array
C18_Released ==
    /\ (rc_call.op = "rc_init" /\ rc_call.status = eFILTER_ERROR) =>
            ~rc.ptr /\ ~rc.p_y_ok
    /\ (cr_call.op = "cr_init" /\ cr_call.status = eFILTER_ERROR) =>
            ~cr.ptr /\ ~cr.p_y_ok /\ ~cr.p_x_ok

\* the same for the FIR and the IIR constructor
C18_FirIirReleased ==
    /\ (fir_call.op = "fir_init" /\ fir_call.status = eFILTER_ERROR) =>
            ~fir.ptr /\ ~fir.p_a_ok /\ ~fir.p_x_ok
    /\ (iir_call.op = "iir_init" /\ iir_call.status = eFILTER_ERROR) =>
            ~iir.ptr /\ ~iir.p_pole_ok /\ ~iir.p_zero_ok /\ ~iir.p_x_ok /\ ~iir.p_y_ok

\* C18: in every constructor, if an allocation fails or the coefficient
\* computation fails after some allocation has succeeded, the constructor
\* returns an error without accessing unallocated memory, and every block it
\* allocated during that call has been released when it returns.
C18_FailedConstruct ==
    /\ C18_NoUnallocatedAccess
    /\ C18_Released
    /\ C18_FirIirReleased
(***************************************************************************)
(* Step response of the order-1 RC filter, checked under SpecRC.           *)
(***************************************************************************)
\* the last call was an update with input v of a constructed order-1 RC
\* instance with alpha in (0,1) whose stage held y
RcStep ==
    /\ RcUpdated
    /\ rc_call.p_ok
    /\ rc_call.pre.ctor = eFILTER_OK
    /\ rc_call.pre.order = 1
    /\ Gt(rc_call.pre.alpha, F(0)) /\ Lt(rc_call.pre.alpha, F(1))

\* C19: for a freshly constructed order-1 RC filter with alpha in (0,1) and
\* init_value 0, feeding the same constant input v on every update yields
\* outputs that move monotonically toward v and never pass v, and the first
\* output is alpha*v.  Stated on one update, for every number of updates
\* before it: the stage starts at 0, and an update with input v of a stage
\* holding y between 0 and v returns a value between y and v (for y = 0:
\* alpha*v), which the next update with v starts from.
C19_RcStepResponse ==
    RcStep =>
        LET v   == rc_call.in
            y   == rc_call.pre.p_y[1]
            out == rc_call.out
        IN  /\ (Gt(v, F(0)) /\ Geq(y, F(0)) /\ Geq(v, y)) =>
                    Geq(out, y) /\ Geq(v, out)
            /\ (Lt(v, F(0)) /\ Geq(F(0), y) /\ Geq(y, v)) =>
                    Geq(y, out) /\ Geq(out, v)
            /\ y = F(0) => out = Mul(rc_call.pre.alpha, v)

\* the third update with input 3 of an instance constructed with init_value 0
\* and alpha 1/2: the stage held 9/4 and the output is 21/8
C19_Witness ==
    /\ RcStep
    /\ rc_call.in = F(3)
    /\ rc_call.pre.alpha = <<1, 2>>
    /\ rc_call.pre.p_y[1] = <<9, 4>>
    /\ rc_call.out = <<21, 8>>

\* the second update with input -3: the stage held -3/2, the output is -9/4
C19_NegWitness ==
    /\ RcStep
    /\ rc_call.in = F(-3)
    /\ rc_call.pre.p_y[1] = <<-3, 2>>
    /\ rc_call.out = <<-9, 4>>
(***************************************************************************)
(* Validation in the biquad synthesis functions, checked under SpecSynth.  *)
(***************************************************************************)
\* the last synthesis call had an argument the functions must reject
SynthInvalid ==
    /\ synth.op \in {"lpf", "hpf", "bpf"}
    /\ \/ Geq(synth.fc, Div(synth.fs, F(2)))
       \/ ~synth.p_pole.ok
       \/ ~synth.p_zero.ok
       \/ synth.op = "bpf" /\ ~(Gt(synth.shape, F(0)) /\ Lt(synth.shape, F(1)))

\* C20: each of the three biquad synthesis functions (low-pass, high-pass,
\* notch) returns an error and writes none of the six output coefficients
\* whenever cutoff >= sample_rate/2 or an output pointer is null; the notch
\* function additionally does so unless 0 < r < 1.
C20_SynthRejects ==
    SynthInvalid =>
        /\ synth.status = eFILTER_ERROR
        /\ synth.pole = synth.p_pole.val
        /\ synth.zero = synth.p_zero.val

\* a low-pass call with cutoff = sample_rate/2 and two arrays holding 3s
C20_Witness ==
    /\ synth.op = "lpf"
    /\ synth.fc = F(22) /\ synth.fs = F(44)
    /\ synth.p_pole.ok /\ synth.p_zero.ok
    /\ synth.status = eFILTER_ERROR
    /\ synth.pole = <<F(3), F(3), F(3)>> /\ synth.zero = <<F(3), F(3), F(3)>>

\* a notch call rejected for r = 1 alone
C20_NotchWitness ==
    /\ synth.op = "bpf"
    /\ synth.fc = F(11) /\ synth.fs = F(44) /\ synth.shape = F(1)
    /\ synth.p_pole.ok /\ synth.p_zero.ok
    /\ synth.status = eFILTER_ERROR
    /\ synth.pole = <<F(3), F(3), F(3)>>

\* the synthesis functions do accept: a low-pass call at a quarter of the
\* sample rate with damping 1/2 gives zero = [1/2, 1, 1/2], pole = [3/2, 0, 1/2]
C20_Accepts ==
    /\ synth.op = "lpf"
    /\ synth.fc = F(11) /\ synth.fs = F(44) /\ synth.shape = <<1, 2>>
    /\ synth.status = eFILTER_OK
    /\ synth.zero = << <<1, 2>>, F(1), <<1, 2>> >>
    /\ synth.pole = << <<3, 2>>, F(0), <<1, 2>> >>

(***************************************************************************)
(* C21..C24: gain of a coefficient set, normalization to unity gain.       *)
(***************************************************************************)
UnityOps == {"to_unity_gain_lpf", "to_unity_gain_hpf"}

\* the last call was a normalization of a non-null coefficient set
Normalized == synth.op \in UnityOps /\ synth.p_ok

\* every zero of the set is the zero before the call divided by g
ZerosDividedBy(g) ==
    /\ Len(synth.after.p_zero.val) = Len(synth.coeff.p_zero.val)
    /\ \A i \in 1..synth.coeff.num_of_zero :
          synth.after.p_zero.val[i] = Div(synth.coeff.p_zero.val[i], g)

\* C21: a normalization (LPF or HPF) of a non-null coefficient set returns
\* success; it divides every zero by the computed gain when the gain is > 0,
\* leaves every zero as it was when the gain is 0, negative or not-a-number
\* (one of the four always is the case), and never changes the poles or the
\* two counts.
C21_Normalize ==
    Normalized =>
        /\ synth.status = eFILTER_OK
        /\ synth.gain = (IF synth.op = "to_unity_gain_lpf"
                         THEN iir_calc_lpf_gain(TRUE, synth.coeff)
                         ELSE iir_calc_hpf_gain(TRUE, synth.coeff))
        /\ Gt(synth.gain, F(0)) => ZerosDividedBy(synth.gain)
        /\ (FEq(synth.gain, F(0)) \/ Lt(synth.gain, F(0)) \/ IsNaN(synth.gain))
              => synth.after.p_zero = synth.coeff.p_zero
        /\ \/ Gt(synth.gain, F(0)) \/ FEq(synth.gain, F(0))
           \/ Lt(synth.gain, F(0)) \/ IsNaN(synth.gain)
        /\ synth.after.p_pole = synth.coeff.p_pole
        /\ synth.after.num_of_pole = synth.coeff.num_of_pole
        /\ synth.after.num_of_zero = synth.coeff.num_of_zero

\* an LPF normalization by a gain of 2 that changed the zeros
C21_Witness ==
    /\ Normalized /\ synth.op = "to_unity_gain_lpf"
    /\ synth.gain = F(2)
    /\ synth.after.p_zero # synth.coeff.p_zero

\* an HPF normalization that found a negative gain and nonzero zeros
C21_NegWitness ==
    /\ Normalized /\ synth.op = "to_unity_gain_hpf"
    /\ Lt(synth.gain, F(0))
    /\ synth.coeff.p_zero.val[1] # F(0)
    /\ synth.after = synth.coeff

\* a normalization that found no gain (pole[0] = 0)
C21_NanWitness ==
    /\ Normalized /\ IsNaN(synth.gain)
    /\ synth.coeff.p_pole.val[1] = F(0)
    /\ synth.status = eFILTER_OK

\* the struct the last call was made with is the one an LPF (HPF)
\* normalization had left
AfterLpfNormalize == synth.op \in GainOps /\ synth.p_ok /\ synth.chained = "to_unity_gain_lpf"
AfterHpfNormalize == synth.op \in GainOps /\ synth.p_ok /\ synth.chained = "to_unity_gain_hpf"

\* C22: an LPF normalization that found a gain > 0 leaves a coefficient set
\* whose lpf_gain is 1; lpf_gain called on the set an LPF normalization left
\* returns 1 whenever it is > 0, and a second LPF normalization of that set
\* changes nothing. The same holds for hpf_gain and the HPF normalization.
C22_UnityGain ==
    /\ (Normalized /\ synth.op = "to_unity_gain_lpf" /\ Gt(synth.gain, F(0)))
          => iir_calc_lpf_gain(TRUE, synth.after) = F(1)
    /\ (Normalized /\ synth.op = "to_unity_gain_hpf" /\ Gt(synth.gain, F(0)))
          => iir_calc_hpf_gain(TRUE, synth.after) = F(1)
    /\ (AfterLpfNormalize /\ synth.op \in {"lpf_gain", "to_unity_gain_lpf"})
          => /\ Gt(synth.gain, F(0)) => synth.gain = F(1)
             /\ synth.after = synth.coeff
    /\ (AfterHpfNormalize /\ synth.op \in {"hpf_gain", "to_unity_gain_hpf"})
          => /\ Gt(synth.gain, F(0)) => synth.gain = F(1)
             /\ synth.after = synth.coeff

\* a second LPF normalization, of a set whose zeros the first one had changed
\* (the zeros now sum to the sum of the poles, and not all poles are 1)
C22_Witness ==
    /\ AfterLpfNormalize /\ synth.op = "to_unity_gain_lpf"
    /\ synth.gain = F(1)
    /\ synth.coeff.num_of_zero = 3
    /\ synth.coeff.p_zero.val[1] \notin {F(0), F(1), F(-1), F(2), F(-2)}

\* hpf_gain read back after an HPF normalization that had changed the zeros
C22_HpfWitness ==
    /\ AfterHpfNormalize /\ synth.op = "hpf_gain"
    /\ synth.gain = F(1)
    /\ synth.coeff.p_zero.val[1] \notin {F(0), F(1), F(-1), F(2), F(-2)}

\* the sum of s[from..to] (1-based)
RECURSIVE PlainSum(_, _, _)
PlainSum(s, from, to) ==
    IF from > to THEN F(0) ELSE Add(PlainSum(s, from, to - 1), s[to])

\* the last call was a gain call of this kind on a non-null coefficient set
GainAsked(op) == synth.op = op /\ synth.p_ok

\* the sums of the set the last call was made with
ZeroSum == PlainSum(synth.coeff.p_zero.val, 1, synth.coeff.num_of_zero)
PoleTail == PlainSum(synth.coeff.p_pole.val, 2, synth.coeff.num_of_pole)
Pole0 == synth.coeff.p_pole.val[1]
PoleSum == Add(Div(PoleTail, Pole0), F(1))

\* C23 as stated: lpf_gain returns (zero sum / pole_sum) / pole[0], and the
\* undefined sentinel exactly when the pointer is null, pole[0] = 0 or
\* pole_sum = 0.
C23_Original ==
    synth.op = "lpf_gain" =>
        IsNaN(synth.gain) <=>
            (~synth.p_ok \/ FEq(Pole0, F(0)) \/ FEq(PoleSum, F(0)))

\* C23, amended: lpf_gain returns the undefined sentinel whenever the pointer
\* is null, pole[0] = 0 or pole_sum = 0, and (zero sum / pole_sum) / pole[0]
\* otherwise; with finite sums and a finite pole[0] that quotient is never
\* the sentinel and equals (sum of zeros) / (sum of all poles).
C23_LpfGain ==
    /\ (synth.op = "lpf_gain" /\ ~synth.p_ok) => IsNaN(synth.gain)
    /\ GainAsked("lpf_gain") =>
          IF FEq(Pole0, F(0)) \/ FEq(PoleSum, F(0))
          THEN IsNaN(synth.gain)
          ELSE /\ synth.gain = Div(Div(ZeroSum, PoleSum), Pole0)
               /\ (IsFinite(ZeroSum) /\ IsFinite(PoleTail) /\ IsFinite(Pole0))
                     => /\ ~IsNaN(synth.gain)
                        /\ synth.gain = Div(ZeroSum, Add(PoleTail, Pole0))

\* a finite gain of three poles and three zeros: (1 + 2 + 4) / (2 + 1 - 1)
C23_Witness ==
    /\ GainAsked("lpf_gain")
    /\ synth.coeff.p_pole.val = <<F(2), F(1), F(-1)>>
    /\ synth.coeff.p_zero.val = <<F(1), F(2), F(4)>>
    /\ synth.gain = <<7, 2>>

\* the sentinel for pole_sum = 0 alone (poles 1, -1, 0)
C23_PoleSumWitness ==
    /\ GainAsked("lpf_gain")
    /\ synth.coeff.p_pole.val = <<F(1), F(-1), F(0)>>
    /\ IsNaN(synth.gain)

\* the sentinel for a null pointer
C23_NullWitness == synth.op = "lpf_gain" /\ ~synth.p_ok /\ IsNaN(synth.gain)

\* the sentinel for not-a-number coefficients
C23_NanWitness ==
    /\ GainAsked("lpf_gain")
    /\ IsNaN(Pole0) /\ IsNaN(synth.gain)

\* the sum of s[from..to] (1-based) with alternating signs, s[from] taken
\* with the sign first (1 or -1)
RECURSIVE AlternatingSum(_, _, _, _)
AlternatingSum(s, from, to, first) ==
    IF from > to THEN F(0)
    ELSE Add(Mul(F(first), s[from]), AlternatingSum(s, from + 1, to, -first))

\* the gain of the set the last call was made with, from an alternating zero
\* sum that starts with + at zero[0] and an alternating pole sum over the
\* indices >= 1 that takes pole[1] with the sign first
AlternatingGain(first) ==
    LET zero_sum == AlternatingSum(synth.coeff.p_zero.val, 1, synth.coeff.num_of_zero, 1)
        pole_sum == Add(Div(AlternatingSum(synth.coeff.p_pole.val, 2,
                                           synth.coeff.num_of_pole, first),
                            Pole0), F(1))
    IN  IF FEq(Pole0, F(0)) \/ FEq(pole_sum, F(0)) THEN NAN
        ELSE Div(Div(zero_sum, pole_sum), Pole0)

C24_Biquad ==
    LET h == iir_coeff_calc_2nd_hpf(F(0), <<1, 2>>, F(44), GainArray, GainArray)
    IN  h.status = eFILTER_OK /\ h.pole = <<F(1), F(-2), F(1)>>
                              /\ h.zero = <<F(1), F(-2), F(1)>>

LaterCall(call, ctor) ==
    /\ call.op \notin {"none", ctor}
    /\ call.pre.ptr /\ call.pre.is_init
    /\ call.pre.ctor = eFILTER_OK

\* C25: an update, reset, set_cutoff, coefficient_replace or query of a
\* successfully constructed instance leaves the instance's order (RC, CR,
\* FIR), its pole and zero counts (IIR) and the capacity of each of its delay
\* lines as they were before the call; hence no sequence of such calls
\* changes them.
C25_SizesKept ==
    /\ LaterCall(rc_call, "rc_init") =>
          /\ rc.order = rc_call.pre.order
          /\ Len(rc.p_y) = Len(rc_call.pre.p_y)
          /\ Len(rc.p_y) = rc.order
    /\ LaterCall(cr_call, "cr_init") =>
          /\ cr.order = cr_call.pre.order
          /\ Len(cr.p_y) = Len(cr_call.pre.p_y)
          /\ Len(cr.p_x) = Len(cr_call.pre.p_x)
          /\ Len(cr.p_y) = cr.order /\ Len(cr.p_x) = cr.order
    /\ LaterCall(fir_call, "fir_init") =>
          /\ fir.order = fir_call.pre.order
          /\ fir.p_x.size = fir_call.pre.p_x.size
          /\ Len(fir.p_a) = Len(fir_call.pre.p_a)
          /\ fir.p_x.size = fir.order
    /\ LaterCall(iir_call, "iir_init") =>
          /\ iir.num_of_pole = iir_call.pre.num_of_pole
          /\ iir.num_of_zero = iir_call.pre.num_of_zero
          /\ iir.p_x.size = iir_call.pre.p_x.size
          /\ iir.p_y.size = iir_call.pre.p_y.size
          /\ iir.p_x.size = iir.num_of_zero /\ iir.p_y.size = iir.num_of_pole

\* a second coefficient_replace in a row on an IIR instance of two poles,
\* made with a struct of other counts
C25_Witness ==
    /\ LaterCall(iir_call, "iir_init")
    /\ iir_call.op = "iir_coeff_set" /\ iir_call.status = eFILTER_OK
    /\ iir_call.coeff.num_of_pole # iir.num_of_pole
    /\ iir.num_of_pole = 2

\* an accepted set_cutoff on an RC instance of order 2
C25_RcWitness ==
    /\ LaterCall(rc_call, "rc_init")
    /\ rc_call.op = "rc_fc_set" /\ rc_call.status = eFILTER_OK
    /\ rc.order = 2 /\ rc.alpha # rc_call.pre.alpha

\* a reset of a CR instance and an update of a FIR instance
C25_CrWitness ==
    LaterCall(cr_call, "cr_init") /\ cr_call.op = "cr_reset" /\ cr.order = 2
C25_FirWitness ==
    LaterCall(fir_call, "fir_init") /\ fir_call.op = "fir_hndl" /\ fir.order = 2

(***************************************************************************)
(* C26: FIR coefficient_replace, checked under SpecFIR.                    *)
(***************************************************************************)
\* the last call was an accepted coefficient_replace on a FIR instance that
\* filter_fir_init constructed successfully
FirCoeffSetDone ==
    /\ fir_call.op = "fir_coeff_set"
    /\ fir_call.status = eFILTER_OK
    /\ fir_call.pre.ptr /\ fir_call.pre.is_init
    /\ fir_call.pre.ctor = eFILTER_OK

\* the stored taps are the caller's, and nothing else of the instance changed
FirTapsReplaced ==
    /\ Len(fir.p_a) = fir.order
    /\ Len(fir_call.coeff) = fir.order
    /\ \A i \in 1..fir.order : fir.p_a[i] = fir_call.coeff[i]
    /\ fir.order = fir_call.pre.order
    /\ fir.p_x = fir_call.pre.p_x
    /\ fir = [fir_call.pre EXCEPT !.p_a = fir.p_a]

\* the update that follows takes its sum over the taps the caller gave and
\* the samples handled before the replacement (fir.hist, oldest first; v0
\* before them), adding it onto what the output location held
FirNextUpdateUsesNewTaps ==
    (FirCoeffSetDone /\ FirUpdated') =>
        LET n == Len(fir.hist)
            x == [i \in 1..fir.order |->
                    IF i = 1 THEN fir_call'.in
                    ELSE Sample(fir.hist, n - (i - 2), fir.v0)]
        IN  fir_call'.out = Add(fir_call'.out0, SumOfProducts(fir_call.coeff, x, 1))

\* C26: an accepted FIR coefficient_replace on a constructed instance
\* overwrites exactly the order stored taps with the caller's values and
\* leaves the delay line and the order as they were; the update that follows
\* forms its sum from the new taps and the input history from before the
\* replacement.
C26_FirCoeffSet ==
    /\ [](FirCoeffSetDone => FirTapsReplaced)
    /\ [][FirNextUpdateUsesNewTaps]_vars

\* a replacement of both taps of an order-2 instance that has handled a
\* nonzero sample
C26_Witness ==
    /\ FirCoeffSetDone
    /\ fir.order = 2
    /\ fir.p_a[1] # fir_call.pre.p_a[1] /\ fir.p_a[2] # fir_call.pre.p_a[2]
    /\ Len(fir.hist) > 0 /\ fir.hist[Len(fir.hist)] # F(0)

(***************************************************************************)
(* C27: the boolean filter's comparator, checked under SpecBool.           *)
(***************************************************************************)
\* the last call was an update of a boolean filter that filter_bool_init
\* constructed successfully
BoolUpdated ==
    /\ bf_call.op = "bool_hndl"
    /\ bf_call.status = eFILTER_OK
    /\ bf_call.p_ok
    /\ bf_call.pre.ptr
    /\ bf_call.pre.ctor = eFILTER_OK

\* a >= b and a <= b as C evaluates them
AtLeast(a, b) == Gt(a, b) \/ FEq(a, b)
AtMost(a, b)  == Lt(a, b) \/ FEq(a, b)

\* C27: a successful construction leaves the output false; an update returns
\* the stored output, whose value changes from false to true only when the
\* internal RC filter's output of that update is >= 1 - comp_lvl and from true
\* to false only when it is <= comp_lvl; in every other update it is the
\* value from before the update.
C27_Debounce ==
    /\ (bf_call.op = "bool_init" /\ bf_call.status = eFILTER_OK) =>
          (bf.y = FALSE /\ bf.is_init /\ bf.lpf.p_y = <<F(0)>>)
    /\ BoolUpdated =>
          /\ bf_call.out = bf.y
          /\ bf_call.filt_out = bf.lpf.p_y[1]
          /\ bf.lpf.p_y = filter_rc_hndl_y(bf_call.pre.lpf,
                                           IF bf_call.in THEN F(1) ELSE F(0))
          /\ (~bf_call.pre.y /\ bf.y) =>
                AtLeast(bf_call.filt_out, Sub(F(1), bf.comp_lvl))
          /\ (bf_call.pre.y /\ ~bf.y) => AtMost(bf_call.filt_out, bf.comp_lvl)
          /\ (~(~bf_call.pre.y /\ AtLeast(bf_call.filt_out, Sub(F(1), bf.comp_lvl)))
              /\ ~(bf_call.pre.y /\ AtMost(bf_call.filt_out, bf.comp_lvl)))
                => bf.y = bf_call.pre.y

\* the output turns true in an update whose RC output is exactly
\* 1 - comp_lvl = 3/4
C27_Witness ==
    /\ BoolUpdated
    /\ ~bf_call.pre.y /\ bf.y
    /\ bf.comp_lvl = <<1, 4>> /\ bf_call.filt_out = <<3, 4>>

\* the output turns false again, at an RC output of 3/16
C27_FallWitness ==
    /\ BoolUpdated
    /\ bf_call.pre.y /\ ~bf.y
    /\ bf_call.filt_out = <<3, 16>>

\* the output stays true at an RC output between the two levels
C27_HoldWitness ==
    /\ BoolUpdated
    /\ bf_call.pre.y /\ bf.y
    /\ bf_call.filt_out = <<3, 8>> /\ bf.comp_lvl = <<1, 4>>

(***************************************************************************)
(* C28: what an update's output depends on, checked under SpecFirIir.      *)
(***************************************************************************)
\* the values the caller's output location may hold before an update
OutBefore == {F(0), F(3)}

\* C28: the output a FIR or IIR update of a constructed instance writes is
\* the same whatever value the caller's output location held before the
\* call: from the instance state and with the input of the last update, every
\* such value gives the output that update gave.
C28_OutputIndependent ==
    /\ FirUpdated =>
          \A out0 \in OutBefore :
              filter_fir_hndl_out(fir_call.pre, fir_call.in, out0) = fir_call.out
    /\ IirUpdated =>
          \A out0 \in OutBefore :
              filter_iir_hndl_out(iir_call.pre, iir_call.in, out0) = iir_call.out

\* the FIR half and the IIR half of C28 taken alone
C28_FirIndependent ==
    FirUpdated =>
        \A out0 \in OutBefore :
            filter_fir_hndl_out(fir_call.pre, fir_call.in, out0) = fir_call.out
C28_IirIndependent ==
    IirUpdated =>
        \A out0 \in OutBefore :
            filter_iir_hndl_out(iir_call.pre, iir_call.in, out0) = iir_call.out

(***************************************************************************)
(* C29: the range of the RC smoothing factor, checked under SpecRC.        *)
(***************************************************************************)
\* the instance behind the handle was constructed successfully
RcConstructed == rc.ptr /\ rc.is_init /\ rc.ctor = eFILTER_OK

\* C29 as stated: every initialized RC instance has 0 < alpha < 1, whatever
\* cutoffs construct and set_cutoff accepted.
C29_Original ==
    RcConstructed => (Gt(rc.alpha, F(0)) /\ Lt(rc.alpha, F(1)))

\* the cutoffs and sample rates the range of alpha is computed for
AlphaCutoffs == {F(-21), F(-14), F(-7), F(0), F(1), F(7), F(14), F(21), F(22)}
AlphaRates   == {F(22), F(44)}

\* what an accepted pair gives: alpha in (0, 1) for a positive cutoff, 0 for
\* a zero cutoff, and for a negative cutoff and a positive sample rate a
\* value above 1 or below 0
AlphaRange(fc, fs, alpha) ==
    /\ Gt(fc, F(0)) => (Gt(alpha, F(0)) /\ Lt(alpha, F(1)))
    /\ FEq(fc, F(0)) => alpha = F(0)
    /\ (Lt(fc, F(0)) /\ Gt(fs, F(0))) => (Gt(alpha, F(1)) \/ Lt(alpha, F(0)))

\* C29, amended: after any sequence of construct and set_cutoff calls an
\* initialized RC instance whose accepted cutoff is positive has
\* 0 < alpha < 1; a zero cutoff that passes the check gives alpha = 0 and a
\* negative one (sample rate positive) an alpha above 1 or below 0.
\* The second conjunct, the function over AlphaCutoffs and AlphaRates, does
\* not depend on the state and is evaluated before the first call.
C29_AlphaRange ==
    /\ RcConstructed => AlphaRange(rc.fc, rc.fs, rc.alpha)
    /\ rc_call.op = "none" =>
       \A fc \in AlphaCutoffs, fs \in AlphaRates :
          LET r == filter_rc_calculate_alpha(fc, fs, NAN)
          IN  IF Lt(fc, Div(fs, F(2)))
              THEN r.status = eFILTER_OK /\ AlphaRange(fc, fs, r.alpha)
              ELSE r.status = eFILTER_ERROR

\* set_cutoff took a constructed instance from cutoff -14 (alpha 2) to
\* cutoff 7 (alpha 1/2)
C29_Witness ==
    /\ RcConstructed
    /\ rc_call.op = "rc_fc_set" /\ rc_call.status = eFILTER_OK
    /\ rc_call.pre.fc = F(-14) /\ rc_call.pre.alpha = F(2)
    /\ rc.fc = F(7) /\ rc.alpha = <<1, 2>>

\* a constructed instance with cutoff 0 and alpha 0
C29_ZeroWitness ==
    /\ RcConstructed /\ rc_call.op = "rc_init"
    /\ rc.fc = F(0) /\ rc.alpha = F(0)

(***************************************************************************)
(* C30: not-a-number in the IIR output history, checked under SpecIIR.     *)
(***************************************************************************)
\* every item of the sequence is a finite number
AllFinite(s) == \A i \in 1..Len(s) : IsFinite(s[i])

\* the last call was an update of a constructed IIR instance of at least two
\* poles
IirUpdated2 == IirUpdated /\ iir_call.pre.num_of_pole >= 2

\* the delay lines of the instance the last call was made on held finite
\* values only, as they do after a reset and after finite updates since
CleanHistory ==
    /\ AllFinite(iir_call.pre.p_x.items)
    /\ AllFinite(iir_call.pre.p_y.items)

\* C30, second half: an update of an instance whose newest stored output is
\* not-a-number returns not-a-number and stores it as the newest output.
C30_NanKept ==
    (IirUpdated2 /\ IsNaN(ring_buffer_get_by_index(iir_call.pre.p_y, F(0), -1)))
        => /\ IsNaN(iir_call.out)
           /\ IsNaN(ring_buffer_get_by_index(iir.p_y, F(0), -1))

\* C30, first half: a reset leaves finite delay lines, and an update with
\* pole[0] != 0, finite coefficients, finite delay lines and a finite input
\* returns a finite value, leaving the delay lines finite.
C30_NanGone ==
    /\ (IirResetDone /\ iir_call.pre.num_of_pole >= 2) =>
          (AllFinite(iir.p_x.items) /\ AllFinite(iir.p_y.items))
    /\ (/\ IirUpdated2
        /\ FNe(iir_call.pre.p_pole[1], F(0))
        /\ AllFinite(iir_call.pre.p_pole) /\ AllFinite(iir_call.pre.p_zero)
        /\ CleanHistory
        /\ IsFinite(iir_call.in))
          => /\ ~IsNaN(iir_call.out)
             /\ AllFinite(iir.p_y.items)

\* C30: for an IIR instance of at least two poles whose output history holds
\* not-a-number, coefficient_replace with pole[0] != 0 followed by reset makes
\* every later update on finite inputs return a number, whereas without the
\* reset updates keep returning not-a-number.
C30_NanHistory == C30_NanGone /\ C30_NanKept

\* an update that finds not-a-number as the newest output although pole[0]
\* is not 0 (coefficient_replace came after the updates with pole[0] = 0)
C30_KeptReached ==
    /\ IirUpdated2
    /\ FNe(iir_call.pre.p_pole[1], F(0))
    /\ IsNaN(ring_buffer_get_by_index(iir_call.pre.p_y, F(0), -1))
    /\ iir_call.out0 = F(0)
    /\ IsNaN(iir_call.out)

\* an update on zero-filled delay lines that returns not-a-number because the
\* output location held it
C30_LocationReached ==
    /\ IirUpdated2
    /\ FNe(iir_call.pre.p_pole[1], F(0))
    /\ CleanHistory
    /\ IsNaN(iir_call.out0) /\ IsNaN(iir_call.out)
=============================================================================
